---- MODULE Spec2Model ----
(***************************************************************************)
(* A model of echolite: the server's per-connection handler (src/main.rs), *)
(* the password verification (src/cli.rs), the wire codec                  *)
(* (protocol/src/lib.rs, protocol/src/ext.rs), the SQLite adapter          *)
(* (src/sqlite.rs) and the client (client/src/lib.rs).                     *)
(*                                                                         *)
(* The two directions of a TCP connection are sequences of bytes.  Every   *)
(* write_* function of the protocol ends with flush(), so an action that   *)
(* writes a frame appends the frame's bytes to the stream.  A read is      *)
(* taken when the bytes it needs have arrived, or when the peer has closed *)
(* (then it fails with UnexpectedEof).                                     *)
(***************************************************************************)
EXTENDS Integers, Sequences, FiniteSets, TLC

\* ------------------------------------------------------------ bounds
\* Frames a client writes after its connect has returned.
MaxCmds == 2

\* Failures of accept in one run of the accept loop.
MaxAcceptFailures == 2

\* Values in a list given to write_values.
MaxValues == 2

\* The connections of the model, and those that run a whole session
Conns == {1, 2, 3}
Sessions == {1}

\* ------------------------------------------------------------ u64
\* A u64 is its 64 bits, least significant first (TLC's integers are 32-bit).
BITS == 64
Idx == 0..(BITS - 1)

Pow2(i) == 2 ^ i

\* n as u64, for 0 <= n < 2^31.
U64(n) == [i \in Idx |-> IF i < 31 THEN (n \div Pow2(i)) % 2 ELSE 0]

\* len as usize, then used as a count of bytes or elements: a value of 2^31 or
\* more is more than any stream of the model holds and is kept as Huge.
Huge == Pow2(30) + (Pow2(30) - 1)
AsUsize(v) ==
    IF \E i \in 31..(BITS - 1) : v[i] = 1 THEN Huge
    ELSE LET RECURSIVE sum(_)
             sum(i) == IF i > 30 THEN 0 ELSE v[i] * Pow2(i) + sum(i + 1)
         IN sum(0)

\* v >> k (logical)
Shr(v, k) == [i \in Idx |-> IF i + k < BITS THEN v[i + k] ELSE 0]
\* v << k for k < 64: the bits shifted past bit 63 are dropped
Shl(v, k) == [i \in Idx |-> IF i >= k THEN v[i - k] ELSE 0]
BitOr(a, b) == [i \in Idx |-> IF a[i] = 1 \/ b[i] = 1 THEN 1 ELSE 0]
\* (v & 0x7F) as u8
Low7(v) == v[0] + 2 * v[1] + 4 * v[2] + 8 * v[3] + 16 * v[4] + 32 * v[5] + 64 * v[6]
\* v < 0x80
Below0x80(v) == \A i \in 7..(BITS - 1) : v[i] = 0

\* ------------------------------------------------------------ reads
\* What a read of a stream s gives: the value and the rest of the stream, an
\* error, or "eof" when s ends before the value does.
Ok(v, rest) == [rest |-> rest, st |-> "ok", val |-> v, err |-> ""]
Fail(e) == [rest |-> <<>>, st |-> "err", val |-> <<>>, err |-> e]
Eof == [rest |-> <<>>, st |-> "eof", val |-> <<>>, err |-> ""]

Take(s, n) == SubSeq(s, 1, n)
Drop(s, n) == SubSeq(s, n + 1, Len(s))

\* AsyncReadExt::read_exact
read_exact(s, n) == IF Len(s) < n THEN Eof ELSE Ok(Take(s, n), Drop(s, n))

\* ------------------------------------------------------------ ext.rs
RECURSIVE write_len(_)
write_len(len) ==
    IF Below0x80(len) THEN <<Low7(len)>>
    ELSE <<Low7(len) + 128>> \o write_len(Shr(len, 7))

write_bytes(bytes) == write_len(U64(Len(bytes))) \o bytes

write_string(val) == write_bytes(val)

\* F of the value of x, with x evaluated once
Bind(x, F(_)) == CHOOSE r \in {F(v) : v \in {x}} : TRUE

RECURSIVE read_len_loop(_, _, _)
read_len_loop(s, len, shift) ==
    IF s = <<>> THEN Eof
    ELSE LET byte == Head(s) IN
         IF shift >= BITS THEN Fail("Varint")
         ELSE Bind(U64(byte % 128), LAMBDA value :
              Bind(BitOr(len, Shl(value, shift)), LAMBDA acc :
                  IF byte < 128 THEN Ok(acc, Tail(s))
                  ELSE read_len_loop(Tail(s), acc, shift + 7)))

\* read_len with the shift advanced before the first byte is placed
read_len_ShiftFirst(s) == read_len_loop(s, U64(0), 7)

read_len(s) == read_len_loop(s, U64(0), 0)

\* vec![0; len]: a length above isize::MAX panics with "capacity overflow"; a
\* length that no address space holds (2^57 bytes or more) makes the allocation
\* fail, and a failed allocation aborts the process.
CapacityOverflow(len) == len[BITS - 1] = 1
AllocFails(len) == len[BITS - 1] = 0 /\ \E i \in 57..(BITS - 2) : len[i] = 1
Panic == [rest |-> <<>>, st |-> "panic", val |-> <<>>, err |-> "capacity overflow"]
Abort == [rest |-> <<>>, st |-> "abort", val |-> <<>>, err |-> "memory allocation failed"]

\* read_bytes with the buffer grown as the bytes arrive
read_bytes_NoAlloc(s) ==
    LET l == read_len(s) IN
    IF l.st # "ok" THEN l ELSE read_exact(l.rest, AsUsize(l.val))

read_bytes(s) ==
    Bind(read_len(s), LAMBDA l :
        IF l.st # "ok" THEN l
        ELSE IF CapacityOverflow(l.val) THEN Panic
        ELSE IF AllocFails(l.val) THEN Abort
        ELSE Bind(AsUsize(l.val), LAMBDA len : read_exact(l.rest, len)))

\* String::from_utf8: the well-formed byte sequences of the Unicode standard.
Cont(b) == b >= 128 /\ b <= 191
RECURSIVE Utf8(_)
Utf8(bytes) ==
    \E b \in {bytes} :
    IF b = <<>> THEN TRUE
    ELSE LET n == Len(b)
             b1 == b[1]
             b2 == IF n >= 2 THEN b[2] ELSE 0
             b3 == IF n >= 3 THEN b[3] ELSE 0
             b4 == IF n >= 4 THEN b[4] ELSE 0
         IN CASE b1 <= 127 -> Utf8(Drop(b, 1))
              [] b1 >= 194 /\ b1 <= 223 -> Cont(b2) /\ Utf8(Drop(b, 2))
              [] b1 = 224 -> b2 >= 160 /\ b2 <= 191 /\ Cont(b3) /\ Utf8(Drop(b, 3))
              [] (b1 >= 225 /\ b1 <= 236) \/ b1 = 238 \/ b1 = 239 ->
                     Cont(b2) /\ Cont(b3) /\ Utf8(Drop(b, 3))
              [] b1 = 237 -> b2 >= 128 /\ b2 <= 159 /\ Cont(b3) /\ Utf8(Drop(b, 3))
              [] b1 = 240 ->
                     b2 >= 144 /\ b2 <= 191 /\ Cont(b3) /\ Cont(b4) /\ Utf8(Drop(b, 4))
              [] b1 >= 241 /\ b1 <= 243 ->
                     Cont(b2) /\ Cont(b3) /\ Cont(b4) /\ Utf8(Drop(b, 4))
              [] b1 = 244 ->
                     b2 >= 128 /\ b2 <= 143 /\ Cont(b3) /\ Cont(b4) /\ Utf8(Drop(b, 4))
              [] OTHER -> FALSE

read_string(s) ==
    Bind(read_bytes(s), LAMBDA buf :
        IF buf.st # "ok" THEN buf
        ELSE IF Utf8(buf.val) THEN buf ELSE Fail("Utf8Error"))

\* ------------------------------------------------------------ lib.rs
\* fixed-width big-endian integers (tokio's AsyncWriteExt / AsyncReadExt)
Byte(v, k) ==
    v[8 * k] + 2 * v[8 * k + 1] + 4 * v[8 * k + 2] + 8 * v[8 * k + 3]
    + 16 * v[8 * k + 4] + 32 * v[8 * k + 5] + 64 * v[8 * k + 6] + 128 * v[8 * k + 7]
\* write_f64 / write_u64: the 8 bytes of a 64-bit pattern, most significant first
write_u64(v) == [k \in 1..8 |-> Byte(v, 8 - k)]
read_u64(s) ==
    LET r == read_exact(s, 8) IN
    IF r.st # "ok" THEN r
    ELSE Ok([i \in Idx |-> (r.val[8 - (i \div 8)] \div Pow2(i % 8)) % 2], r.rest)

\* n as an unsigned 32-bit pattern split in two: n's two's complement
Hi16(n) == IF n >= 0 THEN n \div 65536 ELSE 32768 + (((n + Huge) + 1) \div 65536)
Lo16(n) == IF n >= 0 THEN n % 65536 ELSE ((n + Huge) + 1) % 65536
write_i32(n) == <<Hi16(n) \div 256, Hi16(n) % 256, Lo16(n) \div 256, Lo16(n) % 256>>
read_i32(s) ==
    LET r == read_exact(s, 4) IN
    IF r.st # "ok" THEN r
    ELSE LET b == r.val
             low == (b[1] % 128) * Pow2(24) + b[2] * 65536 + b[3] * 256 + b[4]
         IN Ok(IF b[1] >= 128 THEN (low - Huge) - 1 ELSE low, r.rest)

\* Version { major: 1, minor: 0 }
write_protocol_version == <<1, 0>>

read_protocol_version(s) ==
    LET r == read_exact(s, 2) IN
    IF r.st # "ok" THEN r ELSE Ok([major |-> r.val[1], minor |-> r.val[2]], r.rest)

\* pub type Salt = [u8; 16];  pub type HashedPassword = [u8; 32];
SaltLen == 16
HashLen == 32

\* write_salt without its flush: the salt stays in the writer's buffer
write_salt_Buffered(salt) == <<>>

write_salt(salt) == salt

read_salt(s) == read_exact(s, SaltLen)

\* impl Default for Params
DefaultParams == [m_cost |-> 65536, t_cost |-> 8, p_cost |-> 1]

write_hash_params(params) ==
    write_len(U64(params.m_cost)) \o write_len(U64(params.t_cost))
        \o write_len(U64(params.p_cost))

\* size > u32::MAX is Argon2Params; a size from 2^31 to u32::MAX is kept as Huge
check_size(size) ==
    IF \E i \in 32..(BITS - 1) : size[i] = 1 THEN Fail("Argon2Params")
    ELSE Ok(AsUsize(size), <<>>)

read_hash_params(s) ==
    Bind(read_len(s), LAMBDA m :
    IF m.st # "ok" THEN m ELSE
    Bind(check_size(m.val), LAMBDA mc :
    IF mc.st # "ok" THEN mc ELSE
    Bind(read_len(m.rest), LAMBDA t :
    IF t.st # "ok" THEN t ELSE
    Bind(check_size(t.val), LAMBDA tc :
    IF tc.st # "ok" THEN tc ELSE
    Bind(read_len(t.rest), LAMBDA p :
    IF p.st # "ok" THEN p ELSE
    Bind(check_size(p.val), LAMBDA pc :
    IF pc.st # "ok" THEN pc
    ELSE Ok([m_cost |-> mc.val, t_cost |-> tc.val, p_cost |-> pc.val], p.rest)))))))

\* Argon2id with a 32-byte output, as an injective function of the password, the
\* salt and the parameters: the output spells its inputs (the password's length
\* and first byte, the first byte of each half of the salt, the parameters).  It
\* is injective on passwords that differ in length or first byte and on salts
\* whose halves are told apart by their first byte, as those of the model are.
Argon2id(password, salt, params) ==
    LET spelled == <<Len(password), IF password = <<>> THEN 0 ELSE password[1],
                     salt[1], salt[SaltLen + 1],
                     params.m_cost % 256, (params.m_cost \div 256) % 256,
                     (params.m_cost \div 65536) % 256,
                     params.t_cost % 256, params.p_cost % 256>>
    IN [i \in 1..HashLen |-> IF i <= Len(spelled) THEN spelled[i] ELSE 0]

\* Argon2Params::new rejects a memory cost under 8 blocks per lane and a zero
\* time cost or lane count.
Argon2ParamsValid(params) ==
    /\ params.p_cost >= 1
    /\ params.t_cost >= 1
    /\ params.m_cost >= 8 * params.p_cost

\* to_hash_password with the server's salt first
to_hash_password_ServerFirst(password, client_salt, server_salt, params) ==
    IF ~Argon2ParamsValid(params) THEN Fail("Argon2")
    ELSE LET salt == server_salt \o client_salt
         IN Ok(Argon2id(password, salt, params), <<>>)

\* to_hash_password with the server's salt left out
to_hash_password_ClientSaltOnly(password, client_salt, server_salt, params) ==
    IF ~Argon2ParamsValid(params) THEN Fail("Argon2")
    ELSE LET salt == client_salt \o client_salt
         IN Ok(Argon2id(password, salt, params), <<>>)

to_hash_password(password, client_salt, server_salt, params) ==
    IF ~Argon2ParamsValid(params) THEN Fail("Argon2")
    ELSE LET salt == client_salt \o server_salt
         IN Ok(Argon2id(password, salt, params), <<>>)

write_auth_password(password, client_salt, server_salt, params) ==
    LET p == to_hash_password(password, client_salt, server_salt, params) IN
    IF p.st # "ok" THEN p ELSE Ok(p.val, <<>>)

\* read_auth_password as a length-prefixed read
read_auth_password_Prefixed(s) == read_bytes(s)

read_auth_password(s) == read_exact(s, HashLen)

write_connect(path, flags) == write_string(path) \o write_i32(flags)

read_connect(s) ==
    Bind(read_string(s), LAMBDA path :
    IF path.st # "ok" THEN path ELSE
    Bind(read_i32(path.rest), LAMBDA flags :
    IF flags.st # "ok" THEN flags
    ELSE Ok([path |-> path.val, flags |-> flags.val], flags.rest)))

\* enum Status { Ok, Err(String) }
StatusOk == [ok |-> TRUE, msg |-> <<>>]
StatusErr(msg) == [ok |-> FALSE, msg |-> msg]

write_status(status) ==
    IF status.ok THEN <<0>> ELSE <<1>> \o write_string(status.msg)

read_status(s) ==
    LET tag == read_exact(s, 1) IN
    IF tag.st # "ok" THEN tag
    ELSE CASE tag.val[1] = 0 -> Ok(StatusOk, tag.rest)
           [] tag.val[1] = 1 ->
                  Bind(read_string(tag.rest), LAMBDA m :
                      IF m.st # "ok" THEN m ELSE Ok(StatusErr(m.val), m.rest))
           [] OTHER -> Fail("UnknownStatus")

\* enum Command, by its tag on the wire
Ping == [tag |-> 0, sql |-> <<>>, sqls |-> <<>>]
Disconnect == [tag |-> 1, sql |-> <<>>, sqls |-> <<>>]
SimpleExecute(sql) == [tag |-> 2, sql |-> sql, sqls |-> <<>>]
SimpleQuery(sql) == [tag |-> 3, sql |-> sql, sqls |-> <<>>]
Transaction(sqls) == [tag |-> 4, sql |-> <<>>, sqls |-> sqls]
\* no command: the handler's `command` before the first read
NoCommand == [tag |-> 255, sql |-> <<>>, sqls |-> <<>>]

RECURSIVE write_strings(_)
write_strings(sqls) ==
    IF sqls = <<>> THEN <<>> ELSE write_string(Head(sqls)) \o write_strings(Tail(sqls))

write_command(cmd) ==
    CASE cmd.tag = 0 -> <<0>>
      [] cmd.tag = 1 -> <<1>>
      [] cmd.tag = 2 -> <<2>> \o write_string(cmd.sql)
      [] cmd.tag = 3 -> <<3>> \o write_string(cmd.sql)
      [] cmd.tag = 4 -> <<4>> \o write_len(U64(Len(cmd.sqls))) \o write_strings(cmd.sqls)

\* for _ in 0..len { sqls.push(reader.read_string().await?) }
RECURSIVE read_strings(_, _, _)
read_strings(s, len, sqls) ==
    IF len = 0 THEN Ok(sqls, s)
    ELSE LET r == read_string(s) IN
         IF r.st # "ok" THEN r ELSE read_strings(r.rest, len - 1, Append(sqls, r.val))

read_command(s) ==
    LET tag == read_exact(s, 1) IN
    IF tag.st # "ok" THEN tag
    ELSE CASE tag.val[1] = 0 -> Ok(Ping, tag.rest)
           [] tag.val[1] = 1 -> Ok(Disconnect, tag.rest)
           [] tag.val[1] = 2 ->
                  LET sql == read_string(tag.rest) IN
                  IF sql.st # "ok" THEN sql ELSE Ok(SimpleExecute(sql.val), sql.rest)
           [] tag.val[1] = 3 ->
                  LET sql == read_string(tag.rest) IN
                  IF sql.st # "ok" THEN sql ELSE Ok(SimpleQuery(sql.val), sql.rest)
           [] tag.val[1] = 4 ->
                  LET len == read_len(tag.rest) IN
                  IF len.st # "ok" THEN len
                  ELSE LET sqls == read_strings(len.rest, AsUsize(len.val), <<>>) IN
                       IF sqls.st # "ok" THEN sqls
                       ELSE Ok(Transaction(sqls.val), sqls.rest)
           [] OTHER -> Fail("UnknownCommand")

\* ------------------------------------------------------------ values, query
\* i64 as its 64-bit two's complement pattern
Negative(v) == v[BITS - 1] = 1
\* v >> 63 (arithmetic): the sign in every bit
Sar63(v) == [i \in Idx |-> v[BITS - 1]]
BitXor(a, b) == [i \in Idx |-> IF a[i] # b[i] THEN 1 ELSE 0]
\* -((e & 1) as i64): 0 or all ones
NegLow(e) == [i \in Idx |-> e[0]]
\* -n as i64, for 0 < n < 2^31
NegI64(n) == [i \in Idx |-> 1 - U64(n - 1)[i]]

\* enum Value
Null == [n |-> U64(0), b |-> <<>>, t |-> "Null"]
I64(v) == [n |-> v, b |-> <<>>, t |-> "I64"]
F64(v) == [n |-> v, b |-> <<>>, t |-> "F64"]
Bytes(v) == [n |-> U64(0), b |-> v, t |-> "Bytes"]
Text(v) == [n |-> U64(0), b |-> v, t |-> "Text"]

RECURSIVE write_columns_loop(_)
write_columns_loop(columns) ==
    IF columns = <<>> THEN <<>>
    ELSE write_string(Head(columns).name) \o write_string(Head(columns).datatype)
             \o write_columns_loop(Tail(columns))

write_columns(columns) == write_len(U64(Len(columns))) \o write_columns_loop(columns)

\* ((v << 1) ^ (v >> 63)) as u64
ZigZag(v) == BitXor(Shl(v, 1), Sar63(v))

\* write_values' match with every I64 under tag 1
write_value_Tag1Always(value) ==
    CASE value.t = "Null" -> <<0>>
      [] value.t = "I64" ->
             IF ~Negative(value.n) THEN <<1>> \o write_len(value.n)
             ELSE <<1>> \o write_len(ZigZag(value.n))
      [] value.t = "F64" -> <<3>> \o write_u64(value.n)
      [] value.t = "Bytes" ->
             IF value.b = <<>> THEN <<4>> ELSE <<5>> \o write_bytes(value.b)
      [] value.t = "Text" ->
             IF value.b = <<>> THEN <<6>> ELSE <<7>> \o write_bytes(value.b)

write_value(value) ==
    CASE value.t = "Null" -> <<0>>
      [] value.t = "I64" ->
             IF ~Negative(value.n) THEN <<1>> \o write_len(value.n)
             ELSE <<2>> \o write_len(ZigZag(value.n))
      [] value.t = "F64" -> <<3>> \o write_u64(value.n)
      [] value.t = "Bytes" ->
             IF value.b = <<>> THEN <<4>> ELSE <<5>> \o write_bytes(value.b)
      [] value.t = "Text" ->
             IF value.b = <<>> THEN <<6>> ELSE <<7>> \o write_bytes(value.b)

RECURSIVE write_values_loop(_)
write_values_loop(values) ==
    IF values = <<>> THEN <<>>
    ELSE write_value(Head(values)) \o write_values_loop(Tail(values))

write_values(values) == write_len(U64(Len(values))) \o write_values_loop(values)

\* the decoding without the sign
UnZigZag_NoSign(encoded) == Shr(encoded, 1)

\* ((encoded >> 1) as i64) ^ -((encoded & 1) as i64)
UnZigZag(encoded) == BitXor(Shr(encoded, 1), NegLow(encoded))

\* One turn of read_values' loop: the type id, then the value it announces
read_value(s) ==
    LET type_id == read_exact(s, 1) IN
    IF type_id.st # "ok" THEN type_id
    ELSE CASE type_id.val[1] = 0 -> Ok(Null, type_id.rest)
           [] type_id.val[1] = 1 ->
                  LET v == read_len(type_id.rest) IN
                  IF v.st # "ok" THEN v ELSE Ok(I64(v.val), v.rest)
           [] type_id.val[1] = 2 ->
                  LET encoded == read_len(type_id.rest) IN
                  IF encoded.st # "ok" THEN encoded
                  ELSE Ok(I64(UnZigZag(encoded.val)), encoded.rest)
           [] type_id.val[1] = 3 ->
                  LET v == read_u64(type_id.rest) IN
                  IF v.st # "ok" THEN v ELSE Ok(F64(v.val), v.rest)
           [] type_id.val[1] = 4 -> Ok(Bytes(<<>>), type_id.rest)
           [] type_id.val[1] = 5 ->
                  LET v == read_bytes(type_id.rest) IN
                  IF v.st # "ok" THEN v ELSE Ok(Bytes(v.val), v.rest)
           [] type_id.val[1] = 6 -> Ok(Text(<<>>), type_id.rest)
           [] type_id.val[1] = 7 ->
                  LET v == read_bytes(type_id.rest) IN
                  IF v.st # "ok" THEN v ELSE Ok(Text(v.val), v.rest)
           [] OTHER -> Fail("UnknownValue")

RECURSIVE read_values_loop(_, _, _)
read_values_loop(s, len, values) ==
    IF len = 0 THEN Ok(values, s)
    ELSE LET value == read_value(s) IN
         IF value.st # "ok" THEN value
         ELSE read_values_loop(value.rest, len - 1, Append(values, value.val))

read_values(s) ==
    LET len == read_len(s) IN
    IF len.st # "ok" THEN len ELSE read_values_loop(len.rest, AsUsize(len.val), <<>>)

RECURSIVE read_columns_loop(_, _, _)
read_columns_loop(s, len, columns) ==
    IF len = 0 THEN Ok(columns, s)
    ELSE LET name == read_string(s) IN
         IF name.st # "ok" THEN name
         ELSE LET datatype == read_string(name.rest) IN
              IF datatype.st # "ok" THEN datatype
              ELSE read_columns_loop(datatype.rest, len - 1,
                       Append(columns, [name |-> name.val, datatype |-> datatype.val]))

read_columns(s) ==
    LET len == read_len(s) IN
    IF len.st # "ok" THEN len ELSE read_columns_loop(len.rest, AsUsize(len.val), <<>>)

write_query(query) ==
    write_columns(query.columns) \o write_values(query.values)
        \o write_len(query.rows_affected) \o write_len(query.duration)

\* read_query's test with the remainder left out
InvalidValuesLength_EmptyOnly(columns, values) == columns = <<>> /\ values # <<>>

\* columns.is_empty() && !values.is_empty(), or
\* !values.is_empty() && values.len() % columns.len() != 0
InvalidValuesLength(columns, values) ==
    \/ columns = <<>> /\ values # <<>>
    \/ values # <<>> /\ Len(values) % Len(columns) # 0

read_query(s) ==
    LET columns == read_columns(s) IN
    IF columns.st # "ok" THEN columns
    ELSE LET values == read_values(columns.rest) IN
         IF values.st # "ok" THEN values
         ELSE LET rows_affected == read_len(values.rest) IN
              IF rows_affected.st # "ok" THEN rows_affected
              ELSE LET duration == read_len(rows_affected.rest) IN
                   IF duration.st # "ok" THEN duration
                   ELSE IF InvalidValuesLength(columns.val, values.val)
                        THEN Fail("InvalidValuesLength")
                        ELSE Ok([columns |-> columns.val, values |-> values.val,
                                 rows_affected |-> rows_affected.val,
                                 duration |-> duration.val], duration.rest)

NoQuery == [columns |-> <<>>, values |-> <<>>, rows_affected |-> U64(0), duration |-> U64(0)]

\* ------------------------------------------------------------ sqlite.rs
\* The bits set in an i32
BitsOf(n) ==
    IF n >= 0 THEN {i \in 0..30 : (n \div Pow2(i)) % 2 = 1}
    ELSE {31} \cup {i \in 0..30 : (((n + Huge) + 1) \div Pow2(i)) % 2 = 1}

\* rusqlite's OpenFlags: READ_ONLY, READ_WRITE, CREATE, URI, MEMORY, NO_MUTEX,
\* FULL_MUTEX, SHARED_CACHE, PRIVATE_CACHE, NOFOLLOW, EXRESCODE
OpenFlagsBits == {0, 1, 2, 6, 7, 15, 16, 17, 18, 24, 25}

\* OpenFlags::from_bits_truncate: the unknown bits are dropped
from_bits_Truncate(bits) == TRUE

\* OpenFlags::from_bits: None when a bit is not a flag of OpenFlags
from_bits(bits) == BitsOf(bits) \subseteq OpenFlagsBits

MemoryPath == <<58, 109, 101, 109, 111, 114, 121, 58>>
\* The files of the server's host; every other path is in no directory of it.
Files == {}

\* Connection::open_with_flags: SQLite opens for reading or for writing, and the
\* file must be there or be creatable
open_with_flags(path, bits) ==
    /\ (0 \in BitsOf(bits)) # (1 \in BitsOf(bits))
    /\ path = MemoryPath \/ path \in Files

\* Display of main.rs's Error
InvalidFlagsMsg == <<83, 81, 76, 105, 116, 101, 58, 32, 73, 110, 118, 97, 108, 105, 100, 32, 70, 108, 97, 103, 115, 32, 70, 111, 114, 32, 70, 105, 108, 101, 32, 79, 112, 101, 110, 32, 79, 112, 101, 114, 97, 116, 105, 111, 110, 115>>
SqliteMsg(text) == <<83, 81, 76, 105, 116, 101, 58, 32>> \o text
CannotOpenText == <<117, 110, 97, 98, 108, 101, 32, 116, 111, 32, 111, 112, 101, 110, 32, 100, 97, 116, 97, 98, 97, 115, 101, 32, 102, 105, 108, 101>>
SyntaxErrorText == <<115, 121, 110, 116, 97, 120, 32, 101, 114, 114, 111, 114>>

\* A backend handle: the table's rows, the connection's changes counter,
\* whether a transaction is open on it and the rows there were at its BEGIN.
NoConn == [open |-> FALSE, rows |-> 0, changes |-> 0, intx |-> FALSE, base |-> 0]

\* Sqlite::connect
connect(path, flags) ==
    IF ~from_bits(flags) THEN [ok |-> FALSE, msg |-> InvalidFlagsMsg, conn |-> NoConn]
    ELSE IF ~open_with_flags(path, flags)
         THEN [ok |-> FALSE, msg |-> SqliteMsg(CannotOpenText), conn |-> NoConn]
         ELSE [ok |-> TRUE, msg |-> <<>>, conn |-> [NoConn EXCEPT !.open = TRUE]]

\* The SQL of the model: one-letter statements on one table, `;` between the
\* statements of a batch.  "i" inserts a row, "s" selects every row, "b" is
\* BEGIN, "c" is COMMIT, any other statement does not compile.  59 is the `;`.
SqlInsert == <<105>>
SqlSelect == <<115>>
SqlBegin == <<98>>
SqlCommit == <<99>>
SqlBad == <<120>>

\* The statements of a batch
RECURSIVE Statements(_, _)
Statements(sql, cur) ==
    IF sql = <<>> THEN (IF cur = <<>> THEN <<>> ELSE <<cur>>)
    ELSE IF Head(sql) = 59
         THEN (IF cur = <<>> THEN <<>> ELSE <<cur>>) \o Statements(Tail(sql), <<>>)
         ELSE Statements(Tail(sql), Append(cur, Head(sql)))

Compiles(stmt) == stmt \in {SqlInsert, SqlSelect, SqlBegin, SqlCommit}

\* The effect of one statement on the rows and on the changes counter
Step(conn, stmt) ==
    IF stmt = SqlInsert THEN [conn EXCEPT !.rows = @ + 1, !.changes = 1] ELSE conn

\* "cannot commit - no transaction is active"
NoTransactionText ==
    <<99, 97, 110, 110, 111, 116, 32, 99, 111, 109, 109, 105, 116, 32, 45, 32, 110, 111,
      32, 116, 114, 97, 110, 115, 97, 99, 116, 105, 111, 110, 32, 105, 115, 32, 97, 99,
      116, 105, 118, 101>>
\* "Execute returned results - did you mean to call query?"
ReturnedResultsText ==
    <<69, 120, 101, 99, 117, 116, 101, 32, 114, 101, 116, 117, 114, 110, 101, 100, 32,
      114, 101, 115, 117, 108, 116, 115, 32, 45, 32, 100, 105, 100, 32, 121, 111, 117,
      32, 109, 101, 97, 110, 32, 116, 111, 32, 99, 97, 108, 108, 32, 113, 117, 101, 114,
      121, 63>>

\* "cannot start a transaction within a transaction"
NestedTransactionText ==
    <<99, 97, 110, 110, 111, 116, 32, 115, 116, 97, 114, 116, 32, 97, 32, 116, 114, 97,
      110, 115, 97, 99, 116, 105, 111, 110, 32, 119, 105, 116, 104, 105, 110, 32, 97, 32,
      116, 114, 97, 110, 115, 97, 99, 116, 105, 111, 110>>

\* BEGIN on a handle with no open transaction
Begin(conn) == [conn EXCEPT !.intx = TRUE, !.base = conn.rows]

\* One compiled statement stepped to its end; intx: a transaction is open.
\* COMMIT ends the open transaction and is an error when none is open; BEGIN
\* opens one and is an error when one is open.
Run(conn, intx, stmt) ==
    IF stmt = SqlCommit
    THEN IF intx THEN [ok |-> TRUE, msg |-> <<>>, conn |-> [conn EXCEPT !.intx = FALSE],
                       intx |-> FALSE]
         ELSE [ok |-> FALSE, msg |-> SqliteMsg(NoTransactionText), conn |-> conn,
               intx |-> intx]
    ELSE IF stmt = SqlBegin
    THEN IF intx THEN [ok |-> FALSE, msg |-> SqliteMsg(NestedTransactionText),
                       conn |-> conn, intx |-> intx]
         ELSE [ok |-> TRUE, msg |-> <<>>, conn |-> Begin(conn), intx |-> TRUE]
    ELSE [ok |-> TRUE, msg |-> <<>>, conn |-> Step(conn, stmt), intx |-> intx]

\* Connection::execute_batch: statement after statement, stopping at the first
\* that fails; the statements before it have taken effect
RECURSIVE execute_batch(_, _)
execute_batch(conn, stmts) ==
    IF stmts = <<>> THEN [ok |-> TRUE, msg |-> <<>>, conn |-> conn]
    ELSE IF ~Compiles(Head(stmts))
         THEN [ok |-> FALSE, msg |-> SqliteMsg(SyntaxErrorText), conn |-> conn]
         ELSE LET r == Run(conn, conn.intx, Head(stmts)) IN
              IF ~r.ok THEN [ok |-> FALSE, msg |-> r.msg, conn |-> r.conn]
              ELSE execute_batch(r.conn, Tail(stmts))

\* Sqlite::execute
execute(conn, sql) == execute_batch(conn, Statements(sql, <<>>))

\* The rows of the table, row-major: (id INTEGER, value TEXT)
Columns == <<[name |-> <<105, 100>>, datatype |-> <<73, 78, 84>>],
             [name |-> <<118>>, datatype |-> <<>>]>>
\* row.get_ref(i) on row k of the table
get_ref(k, i) == IF i = 0 THEN I64(U64(k)) ELSE Text(<<118>>)

\* The values of a row with only its first column pushed
row_values_FirstOnly(columns, k) == IF columns = <<>> THEN <<>> ELSE <<get_ref(k, 0)>>

\* for i in 0..columns.len() { values.push(row.get_ref(i)?) }
row_values(columns, k) == [i \in 1..Len(columns) |-> get_ref(k, i - 1)]

\* while let Some(row) = rows.next()? { .. }, from row k to row n
RECURSIVE Rows(_, _, _)
Rows(columns, k, n) ==
    IF k > n THEN <<>> ELSE row_values(columns, k) \o Rows(columns, k + 1, n)

\* The rows a compiled statement gives when it is stepped to its end
ResultRows(conn, stmt) == IF stmt = SqlSelect THEN conn.rows ELSE 0

\* Sqlite::query: prepare compiles the first statement of sql; a statement with
\* no result column is stepped to its end and gives no row
query(conn, sql, elapsed) ==
    LET stmts == Statements(sql, <<>>) IN
    IF stmts = <<>> \/ ~Compiles(Head(stmts))
    THEN [ok |-> FALSE, msg |-> SqliteMsg(SyntaxErrorText), conn |-> conn, query |-> NoQuery]
    ELSE IF ~Run(conn, conn.intx, Head(stmts)).ok
    THEN [ok |-> FALSE, msg |-> Run(conn, conn.intx, Head(stmts)).msg, conn |-> conn,
          query |-> NoQuery]
    ELSE LET after == Run(conn, conn.intx, Head(stmts)).conn
             columns == IF Head(stmts) = SqlSelect THEN Columns ELSE <<>>
             values == Rows(columns, 1, ResultRows(conn, Head(stmts)))
         IN [ok |-> TRUE, msg |-> <<>>, conn |-> after,
             query |-> [columns |-> columns, values |-> values,
                        rows_affected |-> U64(after.changes),
                        duration |-> U64(elapsed)]]

\* for sql in sqls { tx.execute(&sql, ())? }: Connection::execute steps the
\* statement once, and a step that returns a row is the error
\* ExecuteReturnedResults
RECURSIVE tx_execute(_, _, _)
tx_execute(conn, intx, sqls) ==
    IF sqls = <<>> THEN [ok |-> TRUE, msg |-> <<>>, conn |-> conn, intx |-> intx]
    ELSE IF ~Compiles(Head(sqls))
         THEN [ok |-> FALSE, msg |-> SqliteMsg(SyntaxErrorText), conn |-> conn,
               intx |-> intx]
         ELSE IF Head(sqls) = SqlSelect /\ conn.rows > 0
              THEN [ok |-> FALSE, msg |-> SqliteMsg(ReturnedResultsText), conn |-> conn,
                    intx |-> intx]
              ELSE LET r == Run(conn, intx, Head(sqls)) IN
                   IF ~r.ok THEN r ELSE tx_execute(r.conn, r.intx, Tail(sqls))

\* Transaction dropped: the rows go back to what they were at BEGIN, if the
\* transaction is still open; the changes counter stays
Rollback(before, now, intx) ==
    IF intx THEN [now EXCEPT !.rows = before.rows, !.intx = FALSE] ELSE now

\* Sqlite::transaction: BEGIN, the statements, COMMIT; `?` drops tx
transaction(conn, sqls) ==
    IF sqls = <<>> THEN [ok |-> TRUE, msg |-> <<>>, conn |-> conn]
    ELSE IF conn.intx
    THEN [ok |-> FALSE, msg |-> SqliteMsg(NestedTransactionText), conn |-> conn]
    ELSE LET r == tx_execute(Begin(conn), TRUE, sqls) IN
         IF ~r.ok
         THEN [ok |-> FALSE, msg |-> r.msg, conn |-> Rollback(conn, r.conn, r.intx)]
         ELSE LET commit == Run(r.conn, r.intx, SqlCommit) IN
              [ok |-> commit.ok, msg |-> commit.msg,
               conn |-> Rollback(conn, commit.conn, ~commit.ok /\ commit.intx)]

\* ------------------------------------------------------------ state
VARIABLES
    password,   \* cli.rs: the server's configured password (Args.password)
    LIMIT,      \* cli.rs: the permits left in the hashing semaphore
    srv,        \* main.rs: each connection task's place in handler and its locals
    cli,        \* client/src/lib.rs: each client's place in connect and its locals
    c2s,        \* the bytes each client has written that the server has not read
    s2c,        \* the bytes each server task has written that the client has not read
    log,        \* history: the frames written and read and the backend calls, in order
    call,       \* a function of the codec applied on its own: its input and its result
    run         \* main.rs: the accept loop's place in run and its failed accepts

vars == <<password, LIMIT, srv, cli, c2s, s2c, log, call, run>>

\* static LIMIT: Semaphore = Semaphore::const_new(2)
Permits == 2

\* The inputs of the model
Passwords == {<<>>, <<112>>}
Salt(k) == [i \in 1..SaltLen |-> k]
ClientSalts == {Salt(3)}
ServerSalts == {Salt(4), Salt(6)}
\* Flags::default(): READWRITE | CREATE | NOMUTEX | URI
DefaultFlags == 2 + 4 + 32768 + 64
\* ... with SQLITE_OPEN_DELETEONCLOSE, which is no flag of OpenFlags
UnknownFlags == DefaultFlags + 8
FlagValues == {DefaultFlags, UnknownFlags}
Paths == {MemoryPath, <<47, 120>>}
Elapsed == {0, 1}

\* The frames a client writes in the session: every command, and frames no
\* write_command produces (an unknown tag, a text that is not UTF-8, a varint of
\* eleven bytes, a text cut short).
GoodFrames ==
    {write_command(cmd) : cmd \in
        {Ping, Disconnect, SimpleExecute(SqlInsert), SimpleExecute(<<105, 59, 120>>),
         SimpleQuery(SqlSelect), SimpleQuery(SqlBad), Transaction(<<>>),
         Transaction(<<SqlInsert>>), Transaction(<<SqlInsert, SqlBad>>),
         Transaction(<<SqlInsert, SqlCommit>>)}}
BadFrames ==
    {<<9>>, <<2, 1, 255>>,
     <<3, 128, 128, 128, 128, 128, 128, 128, 128, 128, 128, 1>>,
     <<2, 5, 105>>}
Frames == GoodFrames \cup BadFrames

Event(who, op, what, arg, bytes) ==
    [who |-> who, op |-> op, what |-> what, arg |-> arg, bytes |-> bytes]

NoResult == [ok |-> TRUE, msg |-> <<>>, query |-> NoQuery]

SrvInit ==
    [pc |-> "Idle", client_salt |-> <<>>, server_salt |-> <<>>, params |-> DefaultParams,
     hashed |-> <<>>, verified |-> FALSE, path |-> <<>>, flags |-> 0, conn |-> NoConn,
     command |-> NoCommand, result |-> NoResult, ret |-> ""]

\* No version has been read
NoVersion == [major |-> -1, minor |-> -1]

CliInit ==
    [pc |-> "Idle", password |-> <<>>, path |-> <<>>, flags |-> 0, client_salt |-> <<>>,
     server_salt |-> <<>>, params |-> DefaultParams, open |-> FALSE, sent |-> <<>>,
     ret |-> "", version |-> NoVersion]

Init ==
    /\ password \in Passwords
    /\ LIMIT = Permits
    /\ srv = [c \in Conns |-> SrvInit]
    /\ cli = [c \in Conns |-> CliInit]
    /\ c2s = [c \in Conns |-> <<>>]
    /\ s2c = [c \in Conns |-> <<>>]
    /\ log = [c \in Conns |-> <<>>]
    /\ call = [fn |-> "none"]
    /\ run = [pc |-> "accept", failed |-> 0]

\* ------------------------------------------------------------ main.rs
\* run: accept gives a stream, and connection(stream, ..) is spawned on it; the
\* client behind the stream calls Connection::connect(stream, pw, path, flags).
Accept(c, pw, path, flags) ==
    /\ srv[c].pc = "Idle"
    /\ \A d \in Conns : d < c => srv[d].pc # "Idle"
    /\ srv' = [srv EXCEPT ![c].pc = "WriteVersion"]
    /\ cli' = [cli EXCEPT ![c].pc = "ReadVersion", ![c].password = pw, ![c].path = path,
                          ![c].flags = flags, ![c].open = TRUE]
    /\ UNCHANGED <<call, run, password, LIMIT, c2s, s2c, log>>

\* Return with the backend handle kept by the ended task
Return_KeepConn(s, ret) == [s EXCEPT !.pc = "Done", !.ret = ret]

\* `?` on an Err, and every return: the handler ends, and its stream and its
\* backend handle are dropped.
Return(s, ret) == [s EXCEPT !.pc = "Done", !.ret = ret, !.conn = NoConn]

\* A write_* of the protocol by the server task c, flush included.  It fails only
\* when the client has closed the connection, and may also succeed then.
ServerWrite(c, bytes, ev, next) ==
    \/ /\ s2c' = [s2c EXCEPT ![c] = @ \o bytes]
       /\ log' = [log EXCEPT ![c] = Append(@, ev)]
       /\ srv' = [srv EXCEPT ![c] = next]
    \/ /\ ~cli[c].open
       /\ srv' = [srv EXCEPT ![c] = Return(srv[c], "Err")]
       /\ log' = [log EXCEPT ![c] = Append(@, Event("S", "fail", ev.what, "IoError", <<>>))]
       /\ UNCHANGED s2c

\* ServerRead with the error logged and the read tried again
ServerRead_Continue(c, r, what, info, next) ==
    /\ r.st = "eof" => ~cli[c].open
    /\ IF r.st = "ok"
       THEN /\ c2s' = [c2s EXCEPT ![c] = r.rest]
            /\ srv' = [srv EXCEPT ![c] = next]
            /\ log' = [log EXCEPT ![c] = Append(@, Event("S", "read", what, "Ok", info))]
       ELSE /\ srv' = srv
            /\ log' = [log EXCEPT ![c] =
                          Append(@, Event("S", "read", what,
                                          IF r.st = "eof" THEN "UnexpectedEof" ELSE r.err,
                                          <<>>))]
            /\ c2s' = [c2s EXCEPT ![c] = IF @ = <<>> THEN @ ELSE Tail(@)]

\* A read_* of the protocol by the server task c: r is what the read gives on the
\* bytes that have arrived.  A read the stream cannot satisfy yet waits, and
\* fails when the client has closed.
ServerRead(c, r, what, info, next) ==
    /\ r.st = "eof" => ~cli[c].open
    /\ IF r.st = "ok"
       THEN /\ c2s' = [c2s EXCEPT ![c] = r.rest]
            /\ srv' = [srv EXCEPT ![c] = next]
            /\ log' = [log EXCEPT ![c] = Append(@, Event("S", "read", what, "Ok", info))]
       ELSE /\ srv' = IF r.st = "abort"
                      THEN [d \in Conns |-> [srv[d] EXCEPT !.pc = "Aborted", !.conn = NoConn]]
                      ELSE [srv EXCEPT ![c] = Return(srv[c], "Err")]
            /\ log' = [log EXCEPT ![c] =
                          Append(@, Event("S", "read", what,
                                          IF r.st = "eof" THEN "UnexpectedEof" ELSE r.err,
                                          <<>>))]
            /\ UNCHANGED c2s

\* WriteVersion with the server's salt written before the client's is read
WriteVersion_SaltFirst(c) ==
    /\ srv[c].pc = "WriteVersion"
    /\ ServerWrite(c, write_protocol_version,
                   Event("S", "write", "Version", "", write_protocol_version),
                   [srv[c] EXCEPT !.pc = "WriteSalt"])
    /\ UNCHANGED <<call, run, password, LIMIT, cli, c2s>>

\* write_protocol_version(&mut stream).await?
WriteVersion(c) ==
    /\ srv[c].pc = "WriteVersion"
    /\ ServerWrite(c, write_protocol_version,
                   Event("S", "write", "Version", "", write_protocol_version),
                   [srv[c] EXCEPT !.pc = "ReadSalt"])
    /\ UNCHANGED <<call, run, password, LIMIT, cli, c2s>>

\* let client_salt = read_salt(&mut stream).await?
ReadSalt(c) ==
    /\ srv[c].pc = "ReadSalt"
    /\ LET r == read_salt(c2s[c]) IN
       ServerRead(c, r, "ClientSalt", <<>>, [srv[c] EXCEPT !.pc = "WriteSalt", !.client_salt = r.val])
    /\ UNCHANGED <<call, run, password, LIMIT, cli, s2c>>

\* let server_salt = rand_salt(); write_salt(&mut stream, server_salt).await?
WriteSalt(c) ==
    /\ srv[c].pc = "WriteSalt"
    /\ \E server_salt \in ServerSalts :
         ServerWrite(c, write_salt(server_salt),
                     Event("S", "write", "ServerSalt", "", write_salt(server_salt)),
                     [srv[c] EXCEPT !.pc = "WriteHashParams", !.server_salt = server_salt])
    /\ UNCHANGED <<call, run, password, LIMIT, cli, c2s>>

\* let params = Params::default(); write_hash_params(&mut stream, params).await?
WriteHashParams(c) ==
    /\ srv[c].pc = "WriteHashParams"
    /\ LET params == DefaultParams IN
       ServerWrite(c, write_hash_params(params),
                   Event("S", "write", "HashParams", "", write_hash_params(params)),
                   [srv[c] EXCEPT !.pc = "ReadAuthPassword", !.params = params])
    /\ UNCHANGED <<call, run, password, LIMIT, cli, c2s>>

\* let hashed = read_auth_password(&mut stream).await?
ReadAuthPassword(c) ==
    /\ srv[c].pc = "ReadAuthPassword"
    /\ LET r == read_auth_password(c2s[c]) IN
       ServerRead(c, r, "HashedPassword", <<>>, [srv[c] EXCEPT !.pc = "Verify", !.hashed = r.val])
    /\ UNCHANGED <<call, run, password, LIMIT, cli, s2c>>

\* Acquire with the permit taken whether or not one is left
Acquire_NoWait(c) ==
    /\ srv[c].pc = "Verify"
    /\ LIMIT' = LIMIT - 1
    /\ srv' = [srv EXCEPT ![c].pc = "Hashing"]
    /\ UNCHANGED <<call, run, password, cli, c2s, s2c, log>>

\* cli.rs, Password::verify: let _limit = LIMIT.acquire().await?
Acquire(c) ==
    /\ srv[c].pc = "Verify"
    /\ LIMIT > 0
    /\ LIMIT' = LIMIT - 1
    /\ srv' = [srv EXCEPT ![c].pc = "Hashing"]
    /\ UNCHANGED <<call, run, password, cli, c2s, s2c, log>>

\* Verify with the permit kept when the hashes differ
Verify_KeepOnMismatch(c) ==
    /\ srv[c].pc = "Hashing"
    /\ LET server_password ==
               to_hash_password(password, srv[c].client_salt, srv[c].server_salt,
                                srv[c].params)
       IN /\ srv' = [srv EXCEPT ![c] =
                        IF server_password.st # "ok" THEN Return(srv[c], "Err")
                        ELSE [srv[c] EXCEPT !.pc = "AuthStatus",
                                            !.verified = (server_password.val = srv[c].hashed)]]
          /\ LIMIT' = IF server_password.st = "ok" /\ server_password.val # srv[c].hashed
                      THEN LIMIT ELSE LIMIT + 1
    /\ UNCHANGED <<call, run, password, cli, c2s, s2c, log>>

\* cli.rs, Password::verify: the hash of the configured password is computed and
\* compared with the client's; _limit is dropped when verify returns
Verify(c) ==
    /\ srv[c].pc = "Hashing"
    /\ LET server_password ==
               to_hash_password(password, srv[c].client_salt, srv[c].server_salt,
                                srv[c].params)
       IN srv' = [srv EXCEPT ![c] =
                     IF server_password.st # "ok" THEN Return(srv[c], "Err")
                     ELSE [srv[c] EXCEPT !.pc = "AuthStatus",
                                         !.verified = (server_password.val = srv[c].hashed)]]
    /\ LIMIT' = LIMIT + 1
    /\ UNCHANGED <<call, run, password, cli, c2s, s2c, log>>

\* Another text for the failed verification
VerificationFailed_Other == <<65, 117, 116, 104, 32, 102, 97, 105, 108, 101, 100>>

VerificationFailed == <<80, 97, 115, 115, 119, 111, 114, 100, 32, 118, 101, 114, 105, 102, 105, 99, 97, 116, 105, 111, 110, 32, 102, 97, 105, 108, 101, 100>>

\* AuthStatus without the return after the Err
AuthStatus_NoReturn(c) ==
    /\ srv[c].pc = "AuthStatus"
    /\ IF srv[c].verified
       THEN ServerWrite(c, write_status(StatusOk),
                        Event("S", "write", "AuthStatus", "Ok", write_status(StatusOk)),
                        [srv[c] EXCEPT !.pc = "ReadConnect"])
       ELSE ServerWrite(c, write_status(StatusErr(VerificationFailed)),
                        Event("S", "write", "AuthStatus", "Err",
                              write_status(StatusErr(VerificationFailed))),
                        [srv[c] EXCEPT !.pc = "ReadConnect"])
    /\ UNCHANGED <<call, run, password, LIMIT, cli, c2s>>

\* match password.verify(..).await? { true => write_status(Ok), false => { write_status(
\* Err("Password verification failed")); return Ok(()) } }
AuthStatus(c) ==
    /\ srv[c].pc = "AuthStatus"
    /\ IF srv[c].verified
       THEN ServerWrite(c, write_status(StatusOk),
                        Event("S", "write", "AuthStatus", "Ok", write_status(StatusOk)),
                        [srv[c] EXCEPT !.pc = "ReadConnect"])
       ELSE ServerWrite(c, write_status(StatusErr(VerificationFailed)),
                        Event("S", "write", "AuthStatus", "Err",
                              write_status(StatusErr(VerificationFailed))),
                        Return(srv[c], "Ok"))
    /\ UNCHANGED <<call, run, password, LIMIT, cli, c2s>>

\* let (path, flags) = read_connect(&mut stream).await?
ReadConnect(c) ==
    /\ srv[c].pc = "ReadConnect"
    /\ LET r == read_connect(c2s[c]) IN
       ServerRead(c, r, "OpenRequest", <<>>,
                  [srv[c] EXCEPT !.pc = "Connect", !.path = r.val.path,
                                 !.flags = r.val.flags])
    /\ UNCHANGED <<call, run, password, LIMIT, cli, s2c>>

\* match Sqlite::connect(&path, flags)
Connect(c) ==
    /\ srv[c].pc = "Connect"
    /\ LET r == connect(srv[c].path, srv[c].flags) IN
       /\ srv' = [srv EXCEPT ![c].pc = "OpenStatus", ![c].conn = r.conn,
                             ![c].result = [ok |-> r.ok, msg |-> r.msg, query |-> NoQuery]]
       /\ log' = [log EXCEPT ![c] =
                     Append(@, Event("S", "call", "connect", IF r.ok THEN "Ok" ELSE "Err", <<>>))]
    /\ UNCHANGED <<call, run, password, LIMIT, cli, c2s, s2c>>

\* Ok(conn) => write_status(Ok); Err(error) => { write_status(Err(error.to_string()));
\* return Ok(()) }
OpenStatus(c) ==
    /\ srv[c].pc = "OpenStatus"
    /\ IF srv[c].result.ok
       THEN ServerWrite(c, write_status(StatusOk),
                        Event("S", "write", "OpenStatus", "Ok", write_status(StatusOk)),
                        [srv[c] EXCEPT !.pc = "ReadCommand", !.result = NoResult])
       ELSE ServerWrite(c, write_status(StatusErr(srv[c].result.msg)),
                        Event("S", "write", "OpenStatus", "Err",
                              write_status(StatusErr(srv[c].result.msg))),
                        Return(srv[c], "Ok"))
    /\ UNCHANGED <<call, run, password, LIMIT, cli, c2s>>

\* ReadCommand that leaves the bytes of the command in the stream
ReadCommand_Peek(c) ==
    /\ srv[c].pc = "ReadCommand"
    /\ LET r == read_command(c2s[c]) IN
       ServerRead(c, [r EXCEPT !.rest = c2s[c]], "Command", <<r.val.tag>>,
                  [srv[c] EXCEPT !.pc = "Dispatch", !.command = r.val])
    /\ UNCHANGED <<call, run, password, LIMIT, cli, s2c>>

\* loop { let command = read_command(&mut stream).await?
ReadCommand(c) ==
    /\ srv[c].pc = "ReadCommand"
    /\ LET r == read_command(c2s[c]) IN
       ServerRead(c, r, "Command", <<r.val.tag>>,
                  [srv[c] EXCEPT !.pc = "Dispatch", !.command = r.val])
    /\ UNCHANGED <<call, run, password, LIMIT, cli, s2c>>

\* What the backend call of a command gives: the result and the handle after it
Called(c, r, what) ==
    /\ srv' = [srv EXCEPT ![c].pc = "WriteStatus", ![c].conn = r.conn,
                          ![c].result = [ok |-> r.ok, msg |-> r.msg, query |-> r.query]]
    /\ log' = [log EXCEPT ![c] =
                  Append(@, Event("S", "call", what, IF r.ok THEN "Ok" ELSE "Err", <<>>))]

NoQ(r) == [ok |-> r.ok, msg |-> r.msg, conn |-> r.conn, query |-> NoQuery]

\* Dispatch with Disconnect answered like Ping
Dispatch_NoBreak(c) ==
    /\ srv[c].pc = "Dispatch"
    /\ LET command == srv[c].command IN
       CASE command.tag \in {0, 1} ->
                /\ srv' = [srv EXCEPT ![c].pc = "WriteStatus", ![c].result = NoResult]
                /\ UNCHANGED log
         [] command.tag = 2 -> Called(c, NoQ(execute(srv[c].conn, command.sql)), "execute")
         [] command.tag = 3 ->
                \E elapsed \in Elapsed :
                    Called(c, query(srv[c].conn, command.sql, elapsed), "query")
         [] command.tag = 4 ->
                Called(c, NoQ(transaction(srv[c].conn, command.sqls)), "transaction")
    /\ UNCHANGED <<call, run, password, LIMIT, cli, c2s, s2c>>

\* match command { .. }: Ping calls nothing, Disconnect breaks out of the loop,
\* the others call the backend
Dispatch(c) ==
    /\ srv[c].pc = "Dispatch"
    /\ LET command == srv[c].command IN
       CASE command.tag = 0 ->
                /\ srv' = [srv EXCEPT ![c].pc = "WriteStatus", ![c].result = NoResult]
                /\ UNCHANGED log
         [] command.tag = 1 ->
                /\ srv' = [srv EXCEPT ![c] = Return(srv[c], "Ok")]
                /\ UNCHANGED log
         [] command.tag = 2 -> Called(c, NoQ(execute(srv[c].conn, command.sql)), "execute")
         [] command.tag = 3 ->
                \E elapsed \in Elapsed :
                    Called(c, query(srv[c].conn, command.sql, elapsed), "query")
         [] command.tag = 4 ->
                Called(c, NoQ(transaction(srv[c].conn, command.sqls)), "transaction")
    /\ UNCHANGED <<call, run, password, LIMIT, cli, c2s, s2c>>

\* The end of an iteration of the loop: command and the match's values are dropped
NextCommand(s) == [s EXCEPT !.pc = "ReadCommand", !.command = NoCommand, !.result = NoResult]

\* WriteStatus with the Query frame written after every status of a SimpleQuery
WriteStatus_QueryAlways(c) ==
    /\ srv[c].pc = "WriteStatus"
    /\ LET status == IF srv[c].result.ok THEN StatusOk ELSE StatusErr(srv[c].result.msg) IN
       ServerWrite(c, write_status(status),
                   Event("S", "write", "Status", IF status.ok THEN "Ok" ELSE "Err",
                         write_status(status)),
                   IF srv[c].command.tag = 3
                   THEN [srv[c] EXCEPT !.pc = "WriteQuery"]
                   ELSE NextCommand(srv[c]))
    /\ UNCHANGED <<call, run, password, LIMIT, cli, c2s>>

\* WriteStatus with the error of the backend propagated by `?`
WriteStatus_ErrFatal(c) ==
    /\ srv[c].pc = "WriteStatus"
    /\ LET status == IF srv[c].result.ok THEN StatusOk ELSE StatusErr(srv[c].result.msg) IN
       ServerWrite(c, write_status(status),
                   Event("S", "write", "Status", IF status.ok THEN "Ok" ELSE "Err",
                         write_status(status)),
                   IF ~status.ok THEN Return(srv[c], "Err")
                   ELSE IF srv[c].command.tag = 3
                        THEN [srv[c] EXCEPT !.pc = "WriteQuery"]
                        ELSE NextCommand(srv[c]))
    /\ UNCHANGED <<call, run, password, LIMIT, cli, c2s>>

\* write_status(&mut stream, Status::Ok | Status::Err(e.to_string())).await?
WriteStatus(c) ==
    /\ srv[c].pc = "WriteStatus"
    /\ LET status == IF srv[c].result.ok THEN StatusOk ELSE StatusErr(srv[c].result.msg) IN
       ServerWrite(c, write_status(status),
                   Event("S", "write", "Status", IF status.ok THEN "Ok" ELSE "Err",
                         write_status(status)),
                   IF srv[c].command.tag = 3 /\ status.ok
                   THEN [srv[c] EXCEPT !.pc = "WriteQuery"]
                   ELSE NextCommand(srv[c]))
    /\ UNCHANGED <<call, run, password, LIMIT, cli, c2s>>

\* write_query(&mut stream, query).await?
WriteQuery(c) ==
    /\ srv[c].pc = "WriteQuery"
    /\ ServerWrite(c, write_query(srv[c].result.query),
                   Event("S", "write", "Query", "", write_query(srv[c].result.query)),
                   NextCommand(srv[c]))
    /\ UNCHANGED <<call, run, password, LIMIT, cli, c2s>>

\* ------------------------------------------------------------ client/src/lib.rs
\* An Err out of connect: the stream is dropped with the future
ClientFail(k) == [k EXCEPT !.pc = "Failed", !.ret = "Err", !.open = FALSE]

\* A read by the client c; the stream ends when the server task has ended
ClientRead(c, r, next) ==
    /\ r.st = "eof" => srv[c].pc = "Done"
    /\ IF r.st = "ok"
       THEN /\ s2c' = [s2c EXCEPT ![c] = r.rest]
            /\ cli' = [cli EXCEPT ![c] = next]
       ELSE /\ cli' = [cli EXCEPT ![c] = ClientFail(cli[c])]
            /\ UNCHANGED s2c

ClientWrite(c, bytes, what, next) ==
    /\ c2s' = [c2s EXCEPT ![c] = @ \o bytes]
    /\ cli' = [cli EXCEPT ![c] = next]
    /\ log' = [log EXCEPT ![c] = Append(@, Event("C", "write", what, "", bytes))]

\* let version = read_protocol_version(&mut stream).await?;
\* if version.major != 1 { return Err(Error::UnsupportedVersion(version)) }
\* connect with the version read and not looked at
ConnectReadVersion_NoCheck(c) ==
    /\ cli[c].pc = "ReadVersion"
    /\ LET r == read_protocol_version(s2c[c]) IN
       ClientRead(c, r, [cli[c] EXCEPT !.pc = "WriteSalt", !.version = r.val])
    /\ UNCHANGED <<call, run, password, LIMIT, srv, c2s, log>>

ConnectReadVersion(c) ==
    /\ cli[c].pc = "ReadVersion"
    /\ LET r == read_protocol_version(s2c[c]) IN
       ClientRead(c, r, IF r.val.major # 1
                        THEN [ClientFail(cli[c]) EXCEPT !.ret = "UnsupportedVersion",
                                                        !.version = r.val]
                        ELSE [cli[c] EXCEPT !.pc = "WriteSalt", !.version = r.val])
    /\ UNCHANGED <<call, run, password, LIMIT, srv, c2s, log>>

\* let client_salt = rand_salt(); write_salt(&mut stream, client_salt).await?
ConnectWriteSalt(c) ==
    /\ cli[c].pc = "WriteSalt"
    /\ \E client_salt \in ClientSalts :
         ClientWrite(c, write_salt(client_salt), "ClientSalt",
                     [cli[c] EXCEPT !.pc = "ReadSalt", !.client_salt = client_salt])
    /\ UNCHANGED <<call, run, password, LIMIT, srv, s2c>>

\* let server_salt = read_salt(&mut stream).await?
ConnectReadSalt(c) ==
    /\ cli[c].pc = "ReadSalt"
    /\ LET r == read_salt(s2c[c]) IN
       ClientRead(c, r, [cli[c] EXCEPT !.pc = "ReadHashParams", !.server_salt = r.val])
    /\ UNCHANGED <<call, run, password, LIMIT, srv, c2s, log>>

\* let params = read_hash_params(&mut stream).await?
ConnectReadHashParams(c) ==
    /\ cli[c].pc = "ReadHashParams"
    /\ LET r == read_hash_params(s2c[c]) IN
       ClientRead(c, r, [cli[c] EXCEPT !.pc = "WriteAuthPassword", !.params = r.val])
    /\ UNCHANGED <<call, run, password, LIMIT, srv, c2s, log>>

\* write_auth_password(&mut stream, password, client_salt, server_salt, params).await?
ConnectWriteAuthPassword(c) ==
    /\ cli[c].pc = "WriteAuthPassword"
    /\ LET p == write_auth_password(cli[c].password, cli[c].client_salt,
                                    cli[c].server_salt, cli[c].params)
       IN IF p.st = "ok"
          THEN ClientWrite(c, p.val, "HashedPassword", [cli[c] EXCEPT !.pc = "AuthStatus"])
          ELSE /\ cli' = [cli EXCEPT ![c] = ClientFail(cli[c])]
               /\ UNCHANGED <<c2s, log>>
    /\ UNCHANGED <<call, run, password, LIMIT, srv, s2c>>

\* Self::status: read_status(reader).await?.to_result().map_err(Error::Status)?
status(c, next) ==
    LET r == read_status(s2c[c]) IN
    ClientRead(c, r, IF r.val.ok THEN next ELSE ClientFail(cli[c]))

\* Self::status(&mut stream).await? after the hashed password
ConnectAuthStatus(c) ==
    /\ cli[c].pc = "AuthStatus"
    /\ status(c, [cli[c] EXCEPT !.pc = "WriteConnect"])
    /\ UNCHANGED <<call, run, password, LIMIT, srv, c2s, log>>

\* write_connect(&mut stream, path, flags).await?
ConnectWriteConnect(c) ==
    /\ cli[c].pc = "WriteConnect"
    /\ ClientWrite(c, write_connect(cli[c].path, cli[c].flags), "OpenRequest",
                   [cli[c] EXCEPT !.pc = "OpenStatus"])
    /\ UNCHANGED <<call, run, password, LIMIT, srv, s2c>>

\* Self::status(&mut stream).await?; Ok(Self { stream })
ConnectOpenStatus(c) ==
    /\ cli[c].pc = "OpenStatus"
    /\ status(c, [cli[c] EXCEPT !.pc = "Connected", !.ret = "Ok"])
    /\ UNCHANGED <<call, run, password, LIMIT, srv, c2s, log>>

\* The session's writes of a client: write_command(&mut self.stream, ..) of ping,
\* execute, query, transaction and disconnect, and the frames of a client that
\* is not this library; the writes wait for no response
Send(c, frame) ==
    /\ cli[c].pc = "Connected"
    /\ cli[c].open
    /\ Len(cli[c].sent) < MaxCmds
    /\ c2s' = [c2s EXCEPT ![c] = @ \o frame]
    /\ cli' = [cli EXCEPT ![c].sent = Append(@, frame)]
    /\ UNCHANGED <<call, run, password, LIMIT, srv, s2c, log>>

\* The client's end of the connection is dropped, or its process ends
Close(c) ==
    /\ cli[c].open
    /\ cli' = [cli EXCEPT ![c].pc = "Closed", ![c].open = FALSE]
    /\ UNCHANGED <<call, run, password, LIMIT, srv, c2s, s2c, log>>

\* The calls of a Connection.  Each writes its command; ping, execute, query
\* and transaction then read the Status, and query the Query after a Status Ok.
CallWrite(c, cmd) ==
    /\ cli[c].pc = "Connected"
    /\ cli[c].open
    /\ Len(cli[c].sent) < MaxCmds
    /\ c2s' = [c2s EXCEPT ![c] = @ \o write_command(cmd)]
    /\ cli' = [cli EXCEPT ![c].pc = "CallStatus", ![c].sent = Append(@, write_command(cmd))]
    /\ UNCHANGED <<call, run, password, LIMIT, srv, s2c, log>>

\* The call whose response is awaited is query
InQuery(k) == k.sent[Len(k.sent)][1] = 3

\* CallStatus of a query that reads no Query
CallStatus_NoQuery(c) ==
    /\ cli[c].pc = "CallStatus"
    /\ LET r == read_status(s2c[c]) IN
       ClientRead(c, r, IF r.val.ok THEN [cli[c] EXCEPT !.pc = "Connected", !.ret = "Ok"]
                        ELSE [cli[c] EXCEPT !.pc = "Connected", !.ret = "Status"])
    /\ UNCHANGED <<call, run, password, LIMIT, srv, c2s, log>>

\* Self::status(&mut self.stream).await?: an Err(Error::Status) ends the call and
\* leaves the Connection as it is
CallStatus(c) ==
    /\ cli[c].pc = "CallStatus"
    /\ LET r == read_status(s2c[c]) IN
       ClientRead(c, r, IF ~r.val.ok THEN [cli[c] EXCEPT !.pc = "Connected", !.ret = "Status"]
                        ELSE IF InQuery(cli[c]) THEN [cli[c] EXCEPT !.pc = "CallQuery"]
                        ELSE [cli[c] EXCEPT !.pc = "Connected", !.ret = "Ok"])
    /\ UNCHANGED <<call, run, password, LIMIT, srv, c2s, log>>

\* let query = read_query(&mut self.stream).await?; Ok(query)
CallQuery(c) ==
    /\ cli[c].pc = "CallQuery"
    /\ LET r == read_query(s2c[c]) IN
       ClientRead(c, r, [cli[c] EXCEPT !.pc = "Connected", !.ret = "Ok"])
    /\ UNCHANGED <<call, run, password, LIMIT, srv, c2s, log>>

\* ------------------------------------------------------------ specification
Handler(c) ==
    \/ WriteVersion(c) \/ ReadSalt(c) \/ WriteSalt(c) \/ WriteHashParams(c)
    \/ ReadAuthPassword(c) \/ Acquire(c) \/ Verify(c) \/ AuthStatus(c)
    \/ ReadConnect(c) \/ Connect(c) \/ OpenStatus(c)
    \/ ReadCommand(c) \/ Dispatch(c) \/ WriteStatus(c) \/ WriteQuery(c)

Client(c) ==
    \/ ConnectReadVersion(c) \/ ConnectWriteSalt(c) \/ ConnectReadSalt(c)
    \/ ConnectReadHashParams(c) \/ ConnectWriteAuthPassword(c) \/ ConnectAuthStatus(c)
    \/ ConnectWriteConnect(c) \/ ConnectOpenStatus(c)
    \/ (\E frame \in Frames : Send(c, frame))
    \/ Close(c)

Next ==
    \E c \in Sessions :
        \/ (\E pw \in Passwords, path \in Paths, flags \in FlagValues :
                Accept(c, pw, path, flags))
        \/ Handler(c)
        \/ Client(c)

Spec == Init /\ [][Next]_vars

\* Every connection task of the process, each through its handshake up to the
\* status of the authentication: the tasks share LIMIT and nothing else.  The
\* server's salt is the same in every task here, to keep the tasks few in states.
Authenticate(c) ==
    \/ WriteVersion(c) \/ ReadSalt(c) \/ WriteHashParams(c)
    \/ (WriteSalt(c) /\ srv'[c].server_salt = Salt(4))
    \/ ReadAuthPassword(c) \/ Acquire(c) \/ Verify(c) \/ AuthStatus(c)
    \/ ConnectReadVersion(c) \/ ConnectWriteSalt(c) \/ ConnectReadSalt(c)
    \/ ConnectReadHashParams(c) \/ ConnectWriteAuthPassword(c) \/ ConnectAuthStatus(c)

NextAuth ==
    \E c \in Conns :
        \/ (\E pw \in Passwords : Accept(c, pw, MemoryPath, DefaultFlags))
        \/ Authenticate(c)

SpecAuth == Init /\ [][NextAuth]_vars

\* ------------------------------------------------------------ a peer of any version
\* connect takes any stream: the peer at its other end may speak another
\* version of the protocol.  Here the peer announces any version pair and
\* then goes on as the handler does.
PeerVersion(c, major, minor) ==
    /\ srv[c].pc = "WriteVersion"
    /\ ServerWrite(c, <<major, minor>>,
                   Event("S", "write", "Version", "", <<major, minor>>),
                   [srv[c] EXCEPT !.pc = "ReadSalt"])
    /\ UNCHANGED <<call, run, password, LIMIT, cli, c2s>>

NextVersion ==
    \E c \in Sessions :
        \/ (\E pw \in Passwords : Accept(c, pw, MemoryPath, DefaultFlags))
        \/ (\E major \in {0, 1, 2, 255}, minor \in {0, 1, 255} :
                PeerVersion(c, major, minor))
        \/ ReadSalt(c) \/ WriteSalt(c) \/ WriteHashParams(c)
        \/ ReadAuthPassword(c) \/ Acquire(c) \/ Verify(c) \/ AuthStatus(c)
        \/ ReadConnect(c) \/ Connect(c) \/ OpenStatus(c)
        \/ ConnectReadVersion(c) \/ ConnectWriteSalt(c) \/ ConnectReadSalt(c)
        \/ ConnectReadHashParams(c) \/ ConnectWriteAuthPassword(c) \/ ConnectAuthStatus(c)
        \/ ConnectWriteConnect(c) \/ ConnectOpenStatus(c)

SpecVersion == Init /\ [][NextVersion]_vars

\* ------------------------------------------------------------ a replayed hash
\* A sender that has seen the bytes of another connection and knows no
\* password: it picks its salt as it likes, one of the server's salts included,
\* and sends a HashedPassword it has seen a client send.
Replayers == {2}

ReplayWriteSalt(c) ==
    /\ cli[c].pc = "WriteSalt"
    /\ \E salt \in ClientSalts \cup ServerSalts :
         ClientWrite(c, write_salt(salt), "ClientSalt",
                     [cli[c] EXCEPT !.pc = "ReadSalt", !.client_salt = salt])
    /\ UNCHANGED <<call, run, password, LIMIT, srv, s2c>>

ReplayAuthPassword(c) ==
    /\ cli[c].pc = "WriteAuthPassword"
    /\ \E d \in Sessions : \E i \in 1..Len(log[d]) :
         /\ log[d][i].who = "C" /\ log[d][i].what = "HashedPassword"
         /\ ClientWrite(c, log[d][i].bytes, "HashedPassword",
                        [cli[c] EXCEPT !.pc = "AuthStatus"])
    /\ UNCHANGED <<call, run, password, LIMIT, srv, s2c>>

NextReplay ==
    \/ \E c \in Sessions \cup Replayers :
           \/ (\E pw \in Passwords : Accept(c, pw, MemoryPath, DefaultFlags))
           \/ WriteVersion(c) \/ ReadSalt(c) \/ WriteSalt(c) \/ WriteHashParams(c)
           \/ ReadAuthPassword(c) \/ Acquire(c) \/ Verify(c) \/ AuthStatus(c)
           \/ ConnectReadVersion(c) \/ ConnectReadSalt(c) \/ ConnectReadHashParams(c)
           \/ ConnectAuthStatus(c)
    \/ \E c \in Sessions : ConnectWriteSalt(c) \/ ConnectWriteAuthPassword(c)
    \/ \E c \in Replayers : ReplayWriteSalt(c) \/ ReplayAuthPassword(c)

SpecReplay == Init /\ [][NextReplay]_vars

\* ------------------------------------------------------------ the codec on its own
\* The functions of the codec applied to a stream of their own: `call` holds
\* the function, its input, the bytes that follow the field in the stream, the
\* stream and what the read returned.
Applied(fn, arg, tail, wire, out) ==
    /\ call.fn = "none"
    /\ call' = [fn |-> fn, arg |-> arg, tail |-> tail, wire |-> wire, out |-> out]
    /\ UNCHANGED <<run, password, LIMIT, srv, cli, c2s, s2c, log>>

\* u64 values: every single bit, every run of low ones up to u64::MAX, and
\* values on both sides of the one-byte limit 0x80
Bit(k) == [i \in Idx |-> IF i = k THEN 1 ELSE 0]
Ones(k) == [i \in Idx |-> IF i < k THEN 1 ELSE 0]
Lens ==
    {Bit(k) : k \in Idx} \cup {Ones(k) : k \in 0..BITS}
        \cup {U64(n) : n \in {5, 128, 129, 300, 16384}}

\* The bytes that follow a field in its stream
Tails == {<<>>, <<0>>, <<255, 1>>}

\* write_len(n), then read_len of what was written
WriteReadLen(n, tail) ==
    LET wire == write_len(n) \o tail IN
    Applied("read_len", n, tail, wire, read_len(wire))

\* Streams that start with nine bytes with the continuation bit set: the
\* tenth byte is placed at shift 63, an eleventh would be placed at shift 70.
LongVarints ==
    {[i \in 1..9 |-> b] \o <<tenth>> \o tail :
        b \in {128, 255}, tenth \in {0, 1, 2, 3, 64, 127, 128, 129, 255},
        tail \in {<<>>, <<0>>, <<1>>, <<128, 0>>}}

\* read_len of a stream of bytes
ReadLen(bytes) == Applied("read_len of bytes", bytes, <<>>, bytes, read_len(bytes))

\* Values of every variant.  The i64 are 0, 5, 128, i64::MAX, -1, -65 and
\* i64::MIN as their bit patterns, the f64 are the bit patterns of 1.0 and of a NaN.
Values ==
    LET I64s == {U64(0), U64(5), U64(128), Ones(BITS - 1), Ones(BITS), NegI64(65),
                 Bit(BITS - 1)}
        F64s == {[i \in Idx |-> IF i \in 52..61 THEN 1 ELSE 0], Ones(BITS)}
    IN {Null} \cup {I64(v) : v \in I64s} \cup {F64(v) : v \in F64s}
           \cup {Bytes(b) : b \in {<<>>, <<255, 128>>}}
           \cup {Text(b) : b \in {<<>>, <<97>>}}
ValueLists == UNION {[1..k -> Values] : k \in 0..MaxValues}

\* write_values(values), then read_values of what was written
WriteReadValues(values, tail) ==
    LET wire == write_values(values) \o tail IN
    Applied("read_values", values, tail, wire, read_values(wire))

\* i64 values as their bit patterns: those of Lens, read as i64, and their
\* complements (v and -v - 1), i64::MIN and i64::MAX among them
SignedInputs == Lens \cup {BitXor(v, Ones(BITS)) : v \in Lens}

\* read_values of a list of one value: tag 2, then the varint of the zig-zag
\* of v, whatever the sign of v
ReadTag2(v, tail) ==
    LET wire == write_len(U64(1)) \o <<2>> \o write_len(ZigZag(v)) \o tail IN
    Applied("read_values of tag 2", v, tail, wire, read_values(wire))

\* Query frames of every shape: 0, 1 or 2 columns, and values of a list that
\* may or may not fill whole rows
Queries ==
    {[columns |-> SubSeq(Columns, 1, n), values |-> values,
      rows_affected |-> rows_affected, duration |-> U64(300)] :
        n \in 0..Len(Columns),
        values \in UNION {[1..k -> {Null, Text(<<97>>)}] : k \in 0..(MaxValues + 1)},
        rows_affected \in {U64(0), Ones(BITS)}}

\* read_query of the bytes of a Query frame
ReadQuery(q, tail) ==
    LET wire == write_query(q) \o tail IN
    Applied("read_query", q, tail, wire, read_query(wire))

NextCodec ==
    \/ \E n \in Lens, tail \in Tails : WriteReadLen(n, tail)
    \/ \E bytes \in LongVarints : ReadLen(bytes)
    \/ \E values \in ValueLists, tail \in Tails : WriteReadValues(values, tail)
    \/ \E v \in SignedInputs, tail \in Tails : ReadTag2(v, tail)
    \/ \E q \in Queries, tail \in Tails : ReadQuery(q, tail)

SpecCodec == Init /\ [][NextCodec]_vars

\* ------------------------------------------------------------ the accept loop
\* run: loop { match tcp.accept().await { Ok(v) => spawn(connection(..)),
\*                                        Err(e) => { sleep(3 s); continue } } }
\* The tasks of two connections run beside the loop, each client sending at
\* most one frame: a Ping, a Disconnect, or a SimpleExecute whose text
\* announces a length of 2^62 bytes.
Tasks == {1, 2}
Aborted == \E c \in Conns : srv[c].pc = "Aborted"
LongText == <<2>> \o write_len(Bit(BITS - 2))

AcceptOk(c, pw) ==
    /\ run.pc = "accept"
    /\ ~Aborted
    /\ Accept(c, pw, MemoryPath, DefaultFlags)

AcceptFails ==
    /\ run.pc = "accept"
    /\ ~Aborted
    /\ run.failed < MaxAcceptFailures
    /\ run' = [pc |-> "sleep", failed |-> run.failed + 1]
    /\ UNCHANGED <<call, password, LIMIT, srv, cli, c2s, s2c, log>>

Wake ==
    /\ run.pc = "sleep"
    /\ ~Aborted
    /\ run' = [run EXCEPT !.pc = "accept"]
    /\ UNCHANGED <<call, password, LIMIT, srv, cli, c2s, s2c, log>>

SendOne(c, frame) == cli[c].sent = <<>> /\ Send(c, frame)

NextRun ==
    \/ AcceptFails
    \/ Wake
    \/ \E c \in Tasks :
           \/ AcceptOk(c, password)
           \/ Handler(c)
           \/ ConnectReadVersion(c) \/ ConnectWriteSalt(c) \/ ConnectReadSalt(c)
           \/ ConnectReadHashParams(c) \/ ConnectWriteAuthPassword(c)
           \/ ConnectAuthStatus(c) \/ ConnectWriteConnect(c) \/ ConnectOpenStatus(c)
           \/ (\E frame \in {write_command(SimpleQuery(SqlSelect)),
                               write_command(Disconnect), LongText} :
                  SendOne(c, frame))
           \/ Close(c)

SpecRun == Init /\ [][NextRun]_vars

\* ------------------------------------------------------------ the permits
\* cli.rs, Password::verify: to_hash_password(..).await? gives an Err, from
\* hash_password_into or from the blocking task that did not complete; verify
\* returns it, _limit is dropped, and the handler returns it
VerifyError(c) ==
    /\ srv[c].pc = "Hashing"
    /\ srv' = [srv EXCEPT ![c] = Return(srv[c], "Err")]
    /\ LIMIT' = LIMIT + 1
    /\ UNCHANGED <<call, run, password, cli, c2s, s2c, log>>

NextPermit ==
    \E c \in Conns :
        \/ (\E pw \in Passwords : Accept(c, pw, MemoryPath, DefaultFlags))
        \/ Authenticate(c)
        \/ VerifyError(c)

SpecPermit == Init /\ [][NextPermit]_vars

\* ------------------------------------------------------------ the calls
\* A client of the library: connect, and then calls one after the other, each
\* with every outcome the backend has for it
Calls ==
    {Ping, SimpleExecute(SqlInsert), SimpleExecute(<<105, 59, 105>>),
     SimpleExecute(SqlBad), SimpleQuery(SqlSelect),
     SimpleQuery(SqlInsert), SimpleQuery(SqlBad), Transaction(<<>>),
     Transaction(<<SqlInsert>>), Transaction(<<SqlInsert, SqlBad>>)}

NextCalls ==
    \E c \in Sessions :
        \/ Accept(c, password, MemoryPath, DefaultFlags)
        \/ Handler(c)
        \/ ConnectReadVersion(c) \/ ConnectWriteSalt(c) \/ ConnectReadSalt(c)
        \/ ConnectReadHashParams(c) \/ ConnectWriteAuthPassword(c)
        \/ ConnectAuthStatus(c) \/ ConnectWriteConnect(c) \/ ConnectOpenStatus(c)
        \/ (\E cmd \in Calls : CallWrite(c, cmd))
        \/ CallStatus(c)
        \/ CallQuery(c)

SpecCalls == Init /\ [][NextCalls]_vars

\* ------------------------------------------------------------ the handshake, scheduled
\* The handshake of every connection task with its client's connect, to the
\* session loop or to the end of the task.  Shake(c) is a step of connection c
\* by either side; a connection on which a side can take a step has one of its
\* sides scheduled at last: a read that has its bytes returns, a write is
\* taken by the transport, a permit that is free is given.
Shake(c) ==
    \/ Authenticate(c) \/ ReadConnect(c) \/ Connect(c) \/ OpenStatus(c)
    \/ ConnectWriteConnect(c) \/ ConnectOpenStatus(c)

\* The password of the client behind connection c: it is the server's or not
ShakePassword(c) == IF c = 2 THEN <<112>> ELSE <<>>

NextShake ==
    \E c \in Conns :
        \/ Accept(c, ShakePassword(c), MemoryPath, DefaultFlags)
        \/ Shake(c)

SpecShake ==
    /\ Init
    /\ [][NextShake]_vars
    /\ \A c \in Conns : WF_vars(Shake(c))

\* ------------------------------------------------------------ the ends of a session
\* A session that leaves a transaction open on its handle, and every way it
\* may end: Disconnect, a frame the server cannot read, the client gone.
BeginInsert == write_command(SimpleExecute(<<98, 59, 105>>))
CloseFrames ==
    {write_command(Disconnect), BeginInsert, write_command(SimpleExecute(SqlCommit)),
     write_command(SimpleQuery(SqlSelect)), write_command(Transaction(<<SqlInsert>>)),
     <<9>>}

NextClose ==
    \E c \in Sessions :
        \/ Accept(c, password, MemoryPath, DefaultFlags)
        \/ Handler(c)
        \/ ConnectReadVersion(c) \/ ConnectWriteSalt(c) \/ ConnectReadSalt(c)
        \/ ConnectReadHashParams(c) \/ ConnectWriteAuthPassword(c)
        \/ ConnectAuthStatus(c) \/ ConnectWriteConnect(c) \/ ConnectOpenStatus(c)
        \/ (\E frame \in CloseFrames : Send(c, frame))
        \/ Close(c)

SpecClose == Init /\ [][NextClose]_vars

\* ------------------------------------------------------------ the history
Sel(l, Test(_)) == SelectSeq(l, Test)
\* What the server task did: its reads, its calls and the frames it wrote
IsServer(e) == e.who = "S" /\ e.op # "fail"
\* What the server task did or tried
IsDeed(e) == e.who = "S"
Deeds(c) == SelectSeq(log[c], IsDeed)
IsWrite(e) == e.op = "write"
IsHandshakeWrite(e) ==
    /\ e.op = "write"
    /\ e.what \in {"Version", "ClientSalt", "ServerSalt", "HashParams", "HashedPassword",
                   "AuthStatus", "OpenRequest", "OpenStatus"}
\* The events of the server task c, and the handshake's frames of connection c
SL(c) == SelectSeq(log[c], IsServer)
HW(c) == SelectSeq(log[c], IsHandshakeWrite)
Last(s) == s[Len(s)]
IsPrefix(p, s) == Len(p) <= Len(s) /\ \A i \in 1..Len(p) : p[i] = s[i]
Has(l, Test(_)) == \E i \in 1..Len(l) : Test(l[i])

\* ------------------------------------------------------------ C1
HandshakeOrder ==
    << <<"S", "Version">>, <<"C", "ClientSalt">>, <<"S", "ServerSalt">>,
       <<"S", "HashParams">>, <<"C", "HashedPassword">>, <<"S", "AuthStatus">>,
       <<"C", "OpenRequest">>, <<"S", "OpenStatus">> >>

\* The steps of the handshake that are complete when the server task is at pc
ServerSteps(pc) ==
    CASE pc \in {"Idle", "WriteVersion"} -> {0}
      [] pc = "ReadSalt" -> {1, 2}
      [] pc = "WriteSalt" -> {2}
      [] pc = "WriteHashParams" -> {3}
      [] pc = "ReadAuthPassword" -> {4, 5}
      [] pc \in {"Verify", "Hashing", "AuthStatus"} -> {5}
      [] pc = "ReadConnect" -> {6, 7}
      [] pc \in {"Connect", "OpenStatus"} -> {7}
      [] pc \in {"ReadCommand", "Dispatch", "WriteStatus", "WriteQuery"} -> {8}
      [] OTHER -> 0..8

\* The steps of the handshake that are complete when the client is at pc
ClientSteps(pc) ==
    CASE pc = "Idle" -> {0}
      [] pc = "ReadVersion" -> {0, 1}
      [] pc = "WriteSalt" -> {1}
      [] pc = "ReadSalt" -> {2, 3, 4}
      [] pc = "ReadHashParams" -> {3, 4}
      [] pc = "WriteAuthPassword" -> {4}
      [] pc = "AuthStatus" -> {5, 6}
      [] pc = "WriteConnect" -> {6}
      [] pc = "OpenStatus" -> {7, 8}
      [] pc = "Connected" -> {8}
      [] OTHER -> 0..8

\* C1: the frames of the handshake are written in the order Version (by the
\* server, the bytes 1 0, before the server has read anything), ClientSalt,
\* ServerSalt, HashParams, HashedPassword, Status(auth), OpenRequest,
\* Status(open), each by its side, none skipped or repeated; and each side is at
\* a place of its code where exactly the steps before it are complete.
C1_HandshakeOrder ==
    \A c \in Conns :
        LET hw == HW(c) IN
        /\ Len(hw) <= 8
        /\ \A i \in 1..Len(hw) : <<hw[i].who, hw[i].what>> = HandshakeOrder[i]
        /\ log[c] # <<>> => log[c][1] \in {Event("S", "write", "Version", "", <<1, 0>>),
                                          Event("S", "fail", "Version", "IoError", <<>>)}
        /\ Len(hw) \in ServerSteps(srv[c].pc)
        /\ Len(hw) \in ClientSteps(cli[c].pc)
        /\ \A i \in 1..Len(log[c]) :
               (log[c][i].op = "write" /\ ~IsHandshakeWrite(log[c][i])) =>
                   Len(SelectSeq(SubSeq(log[c], 1, i), IsHandshakeWrite)) = 8

\* A handshake that ran to its end
C1_Witness ==
    \E c \in Conns : Len(HW(c)) = 8 /\ cli[c].pc = "Connected" /\ srv[c].pc = "ReadCommand"

\* ------------------------------------------------------------ C2
\* The status of the authentication that the server task c wrote, if any
AuthWritten(c, arg) ==
    \E i \in 1..Len(log[c]) :
        log[c][i].who = "S" /\ log[c][i].what = "AuthStatus" /\ log[c][i].arg = arg

\* Argon2id of the configured password under client_salt || server_salt, the
\* client's salt first, with the parameters the server sent
ExpectedHash(c) ==
    Argon2id(password, srv[c].client_salt \o srv[c].server_salt, DefaultParams)

\* C2: the server writes Status Ok for the authentication exactly when the 32
\* bytes it received are the hash of its configured password under client_salt
\* || server_salt and the parameters it sent, and Err exactly when they are not;
\* so a client of the configured password is told Ok and a client of another
\* password is told Err.
C2_AuthIffHashEqual ==
    \A c \in Conns :
        /\ AuthWritten(c, "Ok") => srv[c].hashed = ExpectedHash(c)
        /\ AuthWritten(c, "Err") => srv[c].hashed # ExpectedHash(c)
        /\ AuthWritten(c, "Ok") => cli[c].password = password
        /\ AuthWritten(c, "Err") => cli[c].password # password
        /\ cli[c].pc \in {"WriteConnect", "OpenStatus", "Connected"} =>
               cli[c].password = password /\ AuthWritten(c, "Ok")
        /\ (srv[c].pc \in {"ReadConnect", "Connect", "OpenStatus", "ReadCommand", "Dispatch",
                          "WriteStatus", "WriteQuery"}) => AuthWritten(c, "Ok")

\* The client of the configured password has read Ok
C2_Witness ==
    \E c \in Conns :
        /\ AuthWritten(c, "Ok")
        /\ cli[c].pc = "WriteConnect"
        /\ cli[c].password = password
        /\ password # <<>>


\* ------------------------------------------------------------ C3
\* The server task c has compared the hashes and found them different
VerificationHasFailed(c) ==
    /\ Has(SL(c), LAMBDA e : e.op = "read" /\ e.what = "HashedPassword" /\ e.arg = "Ok")
    /\ srv[c].pc \notin {"Verify", "Hashing"}
    /\ ~srv[c].verified

\* The server's events after it read the hashed password
AfterHashed(c) ==
    LET RECURSIVE from(_)
        from(l) == IF l = <<>> THEN <<>>
                   ELSE IF Head(l).what = "HashedPassword" THEN Tail(l) ELSE from(Tail(l))
    IN from(SL(c))

\* Status Err("Password verification failed") on the wire: the tag 1, the length
\* 28, the text
FailedStatusBytes ==
    <<1, 28, 80, 97, 115, 115, 119, 111, 114, 100, 32, 118, 101, 114, 105, 102, 105, 99,
      97, 116, 105, 111, 110, 32, 102, 97, 105, 108, 101, 100>>

\* C3: when the verification has failed the server writes the one frame Status
\* Err("Password verification failed") and the handler ends with the connection
\* closed: it reads no OpenRequest and no command, opens no backend handle and
\* writes nothing else.
C3_AuthFailureCloses ==
    \A c \in Conns :
        VerificationHasFailed(c) =>
            /\ srv[c].pc \in {"AuthStatus", "Done"}
            /\ ~srv[c].conn.open
            /\ Len(AfterHashed(c)) <= 1
            /\ \A i \in 1..Len(AfterHashed(c)) :
                   AfterHashed(c)[i] = Event("S", "write", "AuthStatus", "Err", FailedStatusBytes)
            /\ (srv[c].pc = "Done" /\ srv[c].ret = "Ok") =>
                   /\ Len(AfterHashed(c)) = 1
                   /\ IsPrefix(FailedStatusBytes, s2c[c]) \/ cli[c].pc # "AuthStatus"
            /\ cli[c].pc \notin {"WriteConnect", "OpenStatus", "Connected"}

\* The Err is written and the handler has ended
C3_Witness ==
    \E c \in Conns :
        /\ VerificationHasFailed(c)
        /\ srv[c].pc = "Done"
        /\ Len(AfterHashed(c)) = 1
        /\ s2c[c] = FailedStatusBytes

\* ------------------------------------------------------------ C4
\* The protocol state of the server task at pc
Phase(pc) ==
    CASE pc = "Idle" -> 0
      [] pc = "WriteVersion" -> 1
      [] pc \in {"ReadSalt", "WriteSalt", "WriteHashParams", "ReadAuthPassword", "Verify",
                 "Hashing", "AuthStatus"} -> 2
      [] pc \in {"ReadConnect", "Connect", "OpenStatus"} -> 3
      [] pc \in {"ReadCommand", "Dispatch", "WriteStatus", "WriteQuery"} -> 4
      [] pc = "Done" -> 5

IsStatusOk(e, what) == e.who = "S" /\ e.op = "write" /\ e.what = what /\ e.arg = "Ok"

\* Event i of the server's events sl comes after a Status Ok of the kind `what`
After(sl, i, what) == \E j \in 1..(i - 1) : IsStatusOk(sl[j], what)

C4_Order(c) ==
    LET sl == SL(c) IN
    /\ srv[c].conn.open => Has(sl, LAMBDA e : IsStatusOk(e, "AuthStatus"))
    /\ \A i \in 1..Len(sl) :
           LET e == sl[i] IN
           /\ (e.op = "read" /\ e.what = "OpenRequest") => After(sl, i, "AuthStatus")
           /\ (e.op = "call" /\ e.what = "connect") => After(sl, i, "AuthStatus")
           /\ (e.op = "read" /\ e.what = "Command") =>
                  After(sl, i, "AuthStatus") /\ After(sl, i, "OpenStatus")
           /\ (e.op = "call" /\ e.what # "connect") =>
                  After(sl, i, "AuthStatus") /\ After(sl, i, "OpenStatus")
    /\ srv[c].pc = "Dispatch" =>
           /\ Has(sl, LAMBDA e : IsStatusOk(e, "AuthStatus"))
           /\ Has(sl, LAMBDA e : IsStatusOk(e, "OpenStatus"))

\* C4: the protocol state of a connection goes from Greeting to Auth to Open to
\* Session to Closed and never back; the backend is opened only after the
\* Status Ok of the authentication was written, and a command is read and
\* dispatched only after the Status Ok of the authentication and the Status Ok
\* of the open were written.
C4_NoRegress ==
    /\ [][\A c \in Conns : Phase(srv'[c].pc) >= Phase(srv[c].pc)]_vars
    /\ [](\A c \in Conns : C4_Order(c))

\* A connection that went through every state: a command was dispatched and the
\* handler has ended
C4_Witness ==
    \E c \in Conns :
        /\ srv[c].pc = "Done"
        /\ Has(SL(c), LAMBDA e : e.op = "call" /\ e.what = "execute")

\* ------------------------------------------------------------ C5
\* The server's events from its call of Sqlite::connect on
FromConnect(c) ==
    LET RECURSIVE from(_)
        from(l) == IF l = <<>> THEN <<>>
                   ELSE IF Head(l).op = "call" /\ Head(l).what = "connect" THEN l
                   ELSE from(Tail(l))
    IN from(SL(c))

\* Status Err("SQLite: Invalid Flags For File Open Operations") on the wire
InvalidFlagsBytes ==
    <<1, 46, 83, 81, 76, 105, 116, 101, 58, 32, 73, 110, 118, 97, 108, 105, 100, 32, 70,
      108, 97, 103, 115, 32, 70, 111, 114, 32, 70, 105, 108, 101, 32, 79, 112, 101, 110,
      32, 79, 112, 101, 114, 97, 116, 105, 111, 110, 115>>

\* C5: when the open of the backend fails the server writes the one frame
\* Status Err(message) and the handler ends without a command read; flags with a
\* bit that is no flag of the backend fail with the InvalidFlags message; when
\* the open succeeds the server writes Status Ok and goes on to read commands.
C5_OpenFailureCloses ==
    \A c \in Conns :
        LET f == FromConnect(c) IN
        f # <<>> =>
            /\ (3 \in BitsOf(srv[c].flags)) => f[1].arg = "Err"
            /\ f[1].arg = "Err" =>
                   /\ srv[c].pc \in {"OpenStatus", "Done"}
                   /\ ~srv[c].conn.open
                   /\ Len(f) <= 2
                   /\ Len(f) = 2 =>
                          /\ f[2].op = "write" /\ f[2].what = "OpenStatus" /\ f[2].arg = "Err"
                          /\ f[2].bytes[1] = 1
                          /\ (3 \in BitsOf(srv[c].flags)) => f[2].bytes = InvalidFlagsBytes
                          /\ srv[c].pc = "Done"
                   /\ (srv[c].pc = "Done" /\ srv[c].ret = "Ok") => Len(f) = 2
            /\ f[1].arg = "Ok" =>
                   /\ Len(f) >= 2 => f[2] = Event("S", "write", "OpenStatus", "Ok", <<0>>)
                   /\ Len(f) = 1 => srv[c].pc \in {"OpenStatus", "Done"}
                   /\ (Len(f) = 2 /\ srv[c].pc # "Done") => srv[c].pc = "ReadCommand"
                   /\ (Len(f) = 1 /\ srv[c].pc = "Done") => srv[c].ret = "Err"

\* An OpenRequest with the bit of DELETEONCLOSE was answered
C5_Witness ==
    \E c \in Conns :
        /\ Len(FromConnect(c)) = 2
        /\ FromConnect(c)[2].bytes = InvalidFlagsBytes
        /\ srv[c].pc = "Done"


\* ------------------------------------------------------------ C6
IsCommandRead(e) == e.op = "read" /\ e.what = "Command"
Kind(e) == <<e.op, e.what, e.arg>>
Kinds(l) == [i \in 1..Len(l) |-> Kind(l[i])]

\* The first read of a command after event i of the server's events sl, or the end
NextRead(sl, i) ==
    LET later == {j \in (i + 1)..Len(sl) : IsCommandRead(sl[j])} IN
    IF later = {} THEN Len(sl) + 1 ELSE CHOOSE j \in later : \A k \in later : j <= k

\* What the server did for the command it read at event i
Response(sl, i) == SubSeq(sl, i + 1, NextRead(sl, i) - 1)

\* The server is done with the command it read at event i
Complete(c, sl, i) ==
    \/ NextRead(sl, i) <= Len(sl)
    \/ srv[c].pc = "ReadCommand"
    \/ srv[c].pc = "Done" /\ srv[c].ret = "Ok"

\* The backend call and the frames of a command, by its tag and the backend's answer
Expected(tag, answer) ==
    CASE tag = 0 -> << <<"write", "Status", "Ok">> >>
      [] tag = 1 -> <<>>
      [] tag = 2 -> << <<"call", "execute", answer>>, <<"write", "Status", answer>> >>
      [] tag = 3 ->
             IF answer = "Ok"
             THEN << <<"call", "query", "Ok">>, <<"write", "Status", "Ok">>,
                     <<"write", "Query", "">> >>
             ELSE << <<"call", "query", "Err">>, <<"write", "Status", "Err">> >>
      [] tag = 4 -> << <<"call", "transaction", answer>>, <<"write", "Status", answer>> >>

Conforms(c, sl, i) ==
    LET tag == sl[i].bytes[1]
        resp == Response(sl, i)
        want == Expected(tag, IF resp = <<>> THEN "Ok" ELSE resp[1].arg)
    IN /\ IsPrefix(Kinds(resp), want)
       /\ Complete(c, sl, i) => Kinds(resp) = want
       /\ \A k \in 1..Len(resp) :
              (resp[k].op = "write" /\ resp[k].what = "Status") =>
                  IF resp[k].arg = "Ok" THEN resp[k].bytes = <<0>>
                  ELSE resp[k].bytes[1] = 1 /\ Len(resp[k].bytes) > 2

\* C6: for every command the server has read, what it writes before it reads
\* the next one is: for Ping one Status Ok; for SimpleExecute and Transaction one
\* Status, Ok or Err as the backend answered; for SimpleQuery Status Ok and then
\* one Query frame when the backend answered Ok, and one Status Err and no Query
\* frame when it did not; for Disconnect nothing.  A Query frame is written
\* nowhere but right after the Status Ok of a SimpleQuery.
C6_ResponseFrames ==
    \A c \in Conns :
        LET sl == SL(c) IN
        /\ \A i \in 1..Len(sl) :
               (IsCommandRead(sl[i]) /\ sl[i].arg = "Ok") => Conforms(c, sl, i)
        /\ \A k \in 1..Len(sl) :
               (sl[k].op = "write" /\ sl[k].what = "Query") =>
                   /\ k > 3
                   /\ Kind(sl[k - 1]) = <<"write", "Status", "Ok">>
                   /\ Kind(sl[k - 2]) = <<"call", "query", "Ok">>
                   /\ IsCommandRead(sl[k - 3]) /\ sl[k - 3].bytes = <<3>>
        /\ \A k \in 1..Len(sl) :
               (sl[k].op = "write" /\ sl[k].what = "Status") =>
                   \E i \in 1..(k - 1) : IsCommandRead(sl[i]) /\ NextRead(sl, i) > k

\* A SimpleQuery answered with Ok and a Query, and a command answered with Err
C6_Witness ==
    \E c \in Conns :
        /\ srv[c].pc = "ReadCommand"
        /\ Has(SL(c), LAMBDA e : Kind(e) = <<"write", "Query", "">>)
        /\ Has(SL(c), LAMBDA e : Kind(e) = <<"write", "Status", "Err">>)

\* ------------------------------------------------------------ C7
Count(l, Test(_)) == Len(SelectSeq(l, Test))
IsGoodRead(e) == IsCommandRead(e) /\ e.arg = "Ok"
IsSessionStatus(e) == e.op = "write" /\ e.what = "Status"
IsQueryFrame(e) == e.op = "write" /\ e.what = "Query"
IsQueryOk(e) == Kind(e) = <<"call", "query", "Ok">>
IsDisconnectRead(e) == IsGoodRead(e) /\ e.bytes = <<1>>

\* The commands in a stream of bytes, as read_command reads them one by one
RECURSIVE Decode(_)
Decode(s) ==
    LET r == read_command(s) IN
    IF r.st # "ok" THEN <<>> ELSE <<r.val.tag>> \o Decode(r.rest)

RECURSIVE Concat(_)
Concat(frames) == IF frames = <<>> THEN <<>> ELSE Head(frames) \o Concat(Tail(frames))

\* The tags of the commands the server task c has read, in order
ReadTags(c) ==
    LET reads == SelectSeq(SL(c), IsGoodRead) IN [i \in 1..Len(reads) |-> reads[i].bytes[1]]

\* The responses the server task c still owes at its place in the loop
Owed(c) ==
    CASE srv[c].pc = "ReadCommand" -> <<0, 0>>
      [] srv[c].pc = "Dispatch" -> <<1, 0>>
      [] srv[c].pc = "WriteStatus" ->
             <<1, IF srv[c].command.tag = 3 /\ srv[c].result.ok THEN 1 ELSE 0>>
      [] srv[c].pc = "WriteQuery" -> <<0, 1>>
      [] OTHER -> <<0, 0>>

\* C7: the server reads a command only when every frame of the response to the
\* command before it is written: at each place in the loop the commands read are
\* all answered but the one in progress, a read of a command follows the last
\* frame of the response before it, and the commands are read in the order the
\* client wrote them, whether or not the client waits for a response between.
C7_StrictlySerial ==
    \A c \in Conns :
        LET sl == SL(c) IN
        /\ srv[c].pc \in {"ReadCommand", "Dispatch", "WriteStatus", "WriteQuery"} =>
               /\ Count(sl, IsGoodRead) = Count(sl, IsSessionStatus) + Owed(c)[1]
               /\ Count(sl, IsQueryOk) = Count(sl, IsQueryFrame) + Owed(c)[2]
        /\ \A i \in 2..Len(sl) :
               IsCommandRead(sl[i]) =>
                   \/ Kind(sl[i - 1]) = <<"write", "OpenStatus", "Ok">>
                   \/ /\ IsSessionStatus(sl[i - 1])
                      /\ ~(i > 3 /\ IsQueryOk(sl[i - 2]))
                   \/ IsQueryFrame(sl[i - 1])
        /\ LET tags == ReadTags(c)
               sent == Decode(Concat(cli[c].sent))
           IN IsPrefix(tags, sent)

\* The client has written its second command while the response to the first is
\* half written
C7_Witness ==
    \E c \in Conns :
        /\ srv[c].pc = "WriteQuery"
        /\ Len(cli[c].sent) = 2
        /\ read_command(c2s[c]).st = "ok"

\* ------------------------------------------------------------ C8
IsFatal(e) == (e.op = "read" /\ e.arg # "Ok") \/ e.op = "fail"

\* C8: an error of a read or of a write ends the handler: the failed read or
\* write is the last thing the server task does, the handler has returned the
\* error and dropped its backend handle, and from then on the task writes no
\* byte, calls nothing and reads nothing.
C8_FatalErrors ==
    /\ [](\A c \in Conns :
              LET deeds == Deeds(c) IN
              \A i \in 1..Len(deeds) :
                  IsFatal(deeds[i]) =>
                      /\ i = Len(deeds)
                      /\ srv[c].pc = "Done" /\ srv[c].ret = "Err"
                      /\ ~srv[c].conn.open)
    /\ [][\A c \in Conns :
              srv[c].ret = "Err" =>
                  /\ srv'[c] = srv[c]
                  /\ s2c'[c] = s2c[c]
                  /\ SelectSeq(log'[c], IsDeed) = SelectSeq(log[c], IsDeed)
                  /\ Len(c2s'[c]) >= Len(c2s[c])]_vars

\* A frame that is no command was read in the session, with a command behind it
C8_Witness ==
    \E c \in Conns :
        /\ Deeds(c) # <<>>
        /\ IsCommandRead(Last(Deeds(c)))
        /\ Last(Deeds(c)).arg = "Utf8Error"
        /\ c2s[c] # <<>>

\* ------------------------------------------------------------ C9
IsBackendErr(e) == e.op = "call" /\ e.what # "connect" /\ e.arg = "Err"

\* C9: after an error of the backend the server writes Status Err(message) and is
\* back at the read of the next command, holding its backend handle and nothing
\* of the failed command; the next command is then read and answered as any
\* other.
C9_BackendErrorRecoverable ==
    \A c \in Conns :
        LET sl == SL(c)
            deeds == Deeds(c)
        IN
        /\ \A i \in 1..Len(sl) :
               IsBackendErr(sl[i]) =>
                   /\ i < Len(sl) =>
                          /\ Kind(sl[i + 1]) = <<"write", "Status", "Err">>
                          /\ sl[i + 1].bytes[1] = 1
                          /\ Take(Drop(sl[i + 1].bytes, 2), 8) = SqliteMsg(<<>>)
                          /\ i + 1 = Len(sl) =>
                                 /\ srv[c].pc = "ReadCommand"
                                 /\ srv[c].ret = ""
                                 /\ srv[c].conn.open
                          /\ i + 1 < Len(sl) => IsCommandRead(sl[i + 2])
                   /\ i = Len(sl) =>
                          \/ srv[c].pc = "WriteStatus" /\ ~srv[c].result.ok
                          \/ deeds # <<>> /\ Kind(Last(deeds)) = <<"fail", "Status", "IoError">>
        /\ srv[c].pc = "ReadCommand" =>
               /\ srv[c].command = NoCommand
               /\ srv[c].result = NoResult
               /\ srv[c].conn.open

\* The command after a failed one was answered Ok
C9_Witness ==
    \E c \in Conns :
        /\ Len(SL(c)) >= 2
        /\ \E i \in 1..Len(SL(c)) :
               /\ IsBackendErr(SL(c)[i])
               /\ \E j \in (i + 1)..Len(SL(c)) : Kind(SL(c)[j]) = <<"write", "Status", "Ok">>

\* ------------------------------------------------------------ C10
\* C10: when the server has read Disconnect it writes nothing, the handler
\* returns Ok, and the task does nothing more: the bytes the client writes after
\* Disconnect stay unread.
C10_Disconnect ==
    /\ [](\A c \in Conns :
              LET sl == SL(c) IN
              \A i \in 1..Len(sl) :
                  IsDisconnectRead(sl[i]) =>
                      /\ i = Len(sl)
                      /\ srv[c].pc \in {"Dispatch", "Done"}
                      /\ srv[c].pc = "Done" => srv[c].ret = "Ok" /\ ~srv[c].conn.open)
    /\ [][\A c \in Conns :
              (SL(c) # <<>> /\ IsDisconnectRead(Last(SL(c)))) =>
                  /\ s2c'[c] = s2c[c]
                  /\ Len(c2s'[c]) >= Len(c2s[c])
                  /\ SelectSeq(log'[c], IsDeed) = SelectSeq(log[c], IsDeed)
                  /\ srv'[c].pc \in {srv[c].pc, "Done"}]_vars

\* A command written after Disconnect stays in the stream
C10_Witness ==
    \E c \in Conns :
        /\ srv[c].pc = "Done" /\ srv[c].ret = "Ok"
        /\ SL(c) # <<>> /\ IsDisconnectRead(Last(SL(c)))
        /\ read_command(c2s[c]).st = "ok"


\* ------------------------------------------------------------ C11
\* The rows that the statements of a transaction insert
Inserted(sqls) == Len(SelectSeq(sqls, LAMBDA sql : sql = SqlInsert))

\* C11: a Transaction of a non-empty list of statements is atomic: when the
\* backend answers Err the rows of the database are what they were before the
\* command, and when it answers Ok every statement has taken effect.
C11_TransactionAtomic ==
    [][\A c \in Conns :
           (/\ srv[c].pc = "Dispatch"
            /\ srv[c].command.tag = 4
            /\ srv[c].command.sqls # <<>>
            /\ srv'[c].pc = "WriteStatus") =>
               IF srv'[c].result.ok
               THEN srv'[c].conn.rows = srv[c].conn.rows + Inserted(srv[c].command.sqls)
               ELSE srv'[c].conn.rows = srv[c].conn.rows]_vars


\* ------------------------------------------------------------ C12
\* The connection tasks whose Argon2 evaluation is in progress
Hashing == {c \in Conns : srv[c].pc = "Hashing"}

\* C12: over all connection tasks of the process, at most 2 evaluations of the
\* password hash are in progress at the same time; each holds one permit of
\* LIMIT, and a task that finds no permit waits.
C12_HashingBounded ==
    /\ Cardinality(Hashing) <= 2
    /\ LIMIT = Permits - Cardinality(Hashing)
    /\ LIMIT >= 0

\* Two evaluations are in progress and a third task waits for a permit
C12_Witness ==
    /\ Cardinality(Hashing) = 2
    /\ \E c \in Conns : srv[c].pc = "Verify"


\* ---------------------------------------------------------------- C13
\* C13: read_len applied to the bytes write_len wrote for a u64 n returns n,
\* whatever n is, and consumes exactly those bytes: the bytes that follow
\* are left in the stream.
C13_VarintRoundTrip ==
    call.fn = "read_len" => call.out = Ok(call.arg, call.tail)

\* u64::MAX, written in ten bytes, read back with two bytes following it
C13_Witness ==
    /\ call.fn = "read_len"
    /\ call.arg = Ones(BITS)
    /\ Len(call.wire) = 12
    /\ call.tail = <<255, 1>>
    /\ call.out.st = "ok"


\* ---------------------------------------------------------------- C14
\* The bytes of the varint a stream starts with: up to the first byte without
\* the continuation bit, or the whole stream when there is none.
RECURSIVE VarintOf(_)
VarintOf(bytes) ==
    IF bytes = <<>> THEN <<>>
    ELSE IF Head(bytes) < 128 THEN <<Head(bytes)>>
    ELSE <<Head(bytes)>> \o VarintOf(Tail(bytes))

\* The 7-bit groups denote more than u64::MAX, or the varint continues past
\* its tenth byte: group k holds the bits 7k .. 7k + 6 of the value.
Overflows(bytes) ==
    LET v == VarintOf(bytes) IN
    \/ Len(v) > 10
    \/ \E k \in 1..Len(v), j \in 0..6 :
           /\ 7 * (k - 1) + j >= BITS
           /\ (v[k] \div Pow2(j)) % 2 = 1

\* C14: read_len fails with the Varint error for every stream whose varint
\* overflows 64 bits (a tenth byte with payload bits above its lowest bit
\* included) or continues past the tenth byte: no value is returned with its
\* high bits dropped.
C14_OverflowRejected ==
    (call.fn = "read_len of bytes" /\ Overflows(call.arg)) =>
        call.out = Fail("Varint")


\* ---------------------------------------------------------------- C15
\* C15: read_values applied to the bytes write_values wrote for a list of
\* values returns the same list, each element with its variant (an empty
\* Bytes stays Bytes, an empty Text stays Text, an I64 keeps its sign, an F64
\* its 64 bits), and leaves the bytes that follow in the stream.
C15_ValuesRoundTrip ==
    call.fn = "read_values" => call.out = Ok(call.arg, call.tail)

\* i64::MIN and an empty Text, read back with two bytes following the list
C15_Witness ==
    /\ call.fn = "read_values"
    /\ call.arg = <<I64(Bit(BITS - 1)), Text(<<>>)>>
    /\ call.tail = <<255, 1>>
    /\ call.out.st = "ok"
    /\ call.out.val[2].t = "Text"


\* ---------------------------------------------------------------- C16
\* C16: a value read under tag 2 is the I64 whose zig-zag was written, for
\* every i64 (i64::MIN and the non-negative ones included); for a
\* non-negative v it is the value read when v is written under tag 1.
C16_ZigZagInverse ==
    call.fn = "read_values of tag 2" =>
        /\ call.out = Ok(<<I64(call.arg)>>, call.tail)
        /\ ~Negative(call.arg) =>
               call.out = read_values(write_len(U64(1)) \o <<1>> \o write_len(call.arg)
                                          \o call.tail)

\* i64::MIN: its zig-zag is u64::MAX, a varint of ten bytes
C16_Witness ==
    /\ call.fn = "read_values of tag 2"
    /\ call.arg = Bit(BITS - 1)
    /\ Len(call.wire) = 12
    /\ call.out.st = "ok"
    /\ Negative(call.out.val[1].n)


\* ---------------------------------------------------------------- C17
\* C17: read_query returns InvalidValuesLength, and no Query, for a frame with
\* values and no column and for a frame whose number of values is not a
\* multiple of its number of columns; in every Query it returns, no column
\* means no value, and otherwise the values fill whole rows.
C17_QueryShape ==
    call.fn = "read_query" =>
        LET columns == Len(call.arg.columns)
            values == Len(call.arg.values)
        IN /\ (columns = 0 /\ values > 0) => call.out = Fail("InvalidValuesLength")
           /\ (columns > 0 /\ values % columns # 0) =>
                  call.out = Fail("InvalidValuesLength")
           /\ call.out.st = "ok" =>
                  IF call.out.val.columns = <<>> THEN call.out.val.values = <<>>
                  ELSE Len(call.out.val.values) % Len(call.out.val.columns) = 0

\* Two columns and three values: one value short of two rows
C17_Witness ==
    /\ call.fn = "read_query"
    /\ Len(call.arg.columns) = 2
    /\ Len(call.arg.values) = 3
    /\ call.out.err = "InvalidValuesLength"


\* ---------------------------------------------------------------- C18
\* The client c has read a version pair
VersionRead(c) == cli[c].version # NoVersion

\* C18: when the version the client reads has a major other than 1, connect
\* fails with UnsupportedVersion for that version, returns no Connection and
\* has written no byte; when the major is 1 the client goes on with its salt,
\* whatever the minor.
C18_ClientVersionCheck ==
    \A c \in Sessions :
        VersionRead(c) =>
            IF cli[c].version.major # 1
            THEN /\ cli[c].pc = "Failed"
                 /\ cli[c].ret = "UnsupportedVersion"
                 /\ c2s[c] = <<>>
                 /\ ~Has(log[c], LAMBDA e : e.who = "C")
                 /\ Has(log[c], LAMBDA e : /\ e.who = "S" /\ e.what = "Version"
                                           /\ e.bytes = <<cli[c].version.major,
                                                           cli[c].version.minor>>)
            ELSE /\ cli[c].ret # "UnsupportedVersion"
                 /\ \/ cli[c].pc = "WriteSalt"
                    \/ Has(log[c], LAMBDA e : e.who = "C" /\ e.what = "ClientSalt")

\* Version 1.255 read, and the connection made
C18_Witness ==
    \E c \in Sessions :
        /\ cli[c].version = [major |-> 1, minor |-> 255]
        /\ cli[c].pc = "Connected"

\* Version 2.0 read, and connect failed
C18_WitnessRefused ==
    \E c \in Sessions :
        /\ cli[c].version = [major |-> 2, minor |-> 0]
        /\ cli[c].ret = "UnsupportedVersion"


\* ---------------------------------------------------------------- C19
\* The bytes of the frame `what` that `who` wrote on connection c, <<>> when
\* there is none
Written(c, who, what) ==
    LET l == Sel(log[c], LAMBDA e : e.who = who /\ e.op = "write" /\ e.what = what)
    IN IF l = <<>> THEN <<>> ELSE l[1].bytes

\* C19: a HashedPassword seen on one connection and sent on another whose
\* server salt differs is refused, whatever salt its sender announces; the
\* server accepts only the hash of its password under the salt the sender
\* announced on this connection followed by the salt the server wrote on this
\* connection.
C19_ReplayRejected ==
    \A c \in Replayers :
        /\ \A d \in Sessions :
               (/\ Written(c, "C", "HashedPassword") # <<>>
                /\ Written(c, "C", "HashedPassword") = Written(d, "C", "HashedPassword")
                /\ Written(c, "S", "ServerSalt") # Written(d, "S", "ServerSalt")) =>
                   /\ ~srv[c].verified
                   /\ ~AuthWritten(c, "Ok")
                   /\ srv[c].pc # "ReadConnect"
        /\ (srv[c].verified \/ AuthWritten(c, "Ok")) =>
               srv[c].hashed =
                   Argon2id(password,
                            Written(c, "C", "ClientSalt") \o Written(c, "S", "ServerSalt"),
                            DefaultParams)

\* The hash that authenticated connection 1 is refused on connection 2, whose
\* sender announced the salt of the client of connection 1
C19_Witness ==
    \E c \in Replayers, d \in Sessions :
        /\ AuthWritten(d, "Ok")
        /\ AuthWritten(c, "Err")
        /\ Written(c, "C", "HashedPassword") = Written(d, "C", "HashedPassword")
        /\ Written(c, "C", "ClientSalt") = Written(d, "C", "ClientSalt")
        /\ Written(c, "S", "ServerSalt") # Written(d, "S", "ServerSalt")


\* ---------------------------------------------------------------- C20
\* The steps in which to_hash_password is called: by the server task c in
\* Password::verify, by the client c in write_auth_password
ServerHashes(c) == srv[c].pc = "Hashing" /\ srv'[c].pc # "Hashing"
ClientHashes(c) == cli[c].pc = "WriteAuthPassword" /\ cli'[c].pc # "WriteAuthPassword"

\* The tasks that hold a permit of LIMIT: a server task from its acquire to the
\* end of verify.  Nothing on the client's path acquires a permit.
HoldsPermit(who, c) == who = "S" /\ srv[c].pc = "Hashing" /\ LIMIT < Permits

\* C20: every call of to_hash_password is made by a task that holds a permit
\* of the hashing semaphore, in Password::verify on the server and in
\* write_auth_password on the client alike.
C20_HashUnderPermit ==
    [][\A c \in Conns :
           /\ ServerHashes(c) => HoldsPermit("S", c)
           /\ ClientHashes(c) => HoldsPermit("C", c)]_vars


\* ---------------------------------------------------------------- C21
\* C21: the accept loop never ends: a failed accept is followed by the sleep
\* and the sleep by the next accept; a step of a connection task, its failure
\* or its end included, changes neither the loop nor another task, and nothing
\* ends the tasks of the process together.
C21_AcceptLoopNeverStops ==
    [][/\ (run.pc = "accept" /\ run' # run) => run'.pc = "sleep"
       /\ (run.pc = "sleep" /\ run' # run) => run'.pc = "accept"
       /\ \A c \in Conns :
              /\ srv'[c].pc # "Aborted"
              /\ srv'[c] # srv[c] =>
                     /\ run' = run
                     /\ \A d \in Conns \ {c} : srv'[d] = srv[d]]_vars

\* ------------------------------------------------------------ C22
IsExecuteOk(e) == e.op = "call" /\ e.what = "execute" /\ e.arg = "Ok"

\* C22: however a session ends once the backend was opened, the task that has
\* ended holds no backend handle, and no transaction is left open on one; the
\* step that ends the task releases the handle whatever was pending on it.
C22_HandleReleased ==
    \A c \in Conns :
        srv[c].pc \in {"Done", "Aborted"} => ~srv[c].conn.open /\ ~srv[c].conn.intx

\* The session ended by an error with the transaction its SimpleExecute began
\* never committed
C22_Witness ==
    \E c \in Sessions :
        /\ srv[c].pc = "Done"
        /\ srv[c].ret = "Err"
        /\ cli[c].sent = <<BeginInsert>>
        /\ Has(log[c], IsExecuteOk)

\* ------------------------------------------------------------ C23
AuthOk(c) == Has(log[c], LAMBDA e : IsStatusOk(e, "AuthStatus"))
IsReadOk(e) == e.who = "S" /\ e.op = "read" /\ e.arg = "Ok"
\* The bytes the server task c takes from the stream in a step
Consumed(c) == Len(c2s[c]) - Len(c2s'[c])

\* C23: until the auth status Ok is written the server takes from the stream
\* only the 16 bytes of the ClientSalt and then the 32 bytes of the
\* HashedPassword, each once and each of its fixed size whatever the bytes are:
\* 48 bytes in all, and no field whose length the client announces.
C23_FixedReadsBeforeAuth ==
    [][\A c \in Conns :
          /\ (~AuthOk(c) /\ Consumed(c) > 0) =>
                 \/ /\ srv[c].pc = "ReadSalt"
                    /\ Consumed(c) = SaltLen
                    /\ c2s'[c] = Drop(c2s[c], SaltLen)
                    /\ ~Has(log[c], IsReadOk)
                 \/ /\ srv[c].pc = "ReadAuthPassword"
                    /\ Consumed(c) = HashLen
                    /\ c2s'[c] = Drop(c2s[c], HashLen)
                    /\ Len(Sel(log[c], IsReadOk)) = 1
          /\ ~AuthOk(c) =>
                 \A i \in 1..Len(log'[c]) :
                     IsReadOk(log'[c][i]) =>
                         log'[c][i].what \in {"ClientSalt", "HashedPassword"}]_vars

\* Both fields read, 48 bytes taken, and the auth status not yet written
C23_Witness ==
    \E c \in Sessions :
        /\ srv[c].pc \in {"Verify", "Hashing", "AuthStatus"}
        /\ ~AuthOk(c)
        /\ Len(Sel(log[c], IsReadOk)) = 2
        /\ c2s[c] = <<>>

\* ------------------------------------------------------------ C24
\* The permits of LIMIT that are out
PermitsOut == Permits - LIMIT
\* The step is one of the network of task c: a frame read or written
NetworkStep(c) == c2s'[c] # c2s[c] \/ s2c'[c] # s2c[c] \/ log'[c] # log[c]

\* C24: a permit is out only for a task whose hash is being computed and
\* compared.  The task took it after it had read the HashedPassword the client
\* wrote and gives it back in the step that ends the verification (match,
\* mismatch or error), before any auth status is written; no step of the
\* network is made by a task that holds a permit, and with no verification in
\* progress both permits are there.
C24_PermitOnlyWhileHashing ==
    /\ [](/\ PermitsOut = Cardinality(Hashing)
          /\ Hashing = {} => LIMIT = Permits
          /\ \A c \in Hashing :
                 /\ Written(c, "C", "HashedPassword") # <<>>
                 /\ Has(log[c], LAMBDA e : IsReadOk(e) /\ e.what = "HashedPassword")
                 /\ ~Has(log[c], LAMBDA e : e.who = "S" /\ e.what = "AuthStatus"))
    /\ [][\A c \in Conns :
              /\ (srv[c].pc # "Hashing" /\ srv'[c].pc = "Hashing") =>
                     /\ srv[c].pc = "Verify"
                     /\ LIMIT' = LIMIT - 1
              /\ (srv[c].pc = "Hashing" /\ srv'[c].pc # "Hashing") =>
                     /\ srv'[c].pc \in {"AuthStatus", "Done"}
                     /\ LIMIT' = LIMIT + 1
                     /\ ~NetworkStep(c)
              /\ NetworkStep(c) => srv[c].pc # "Hashing" /\ LIMIT' = LIMIT
              /\ LIMIT' # LIMIT => \E d \in Conns : "Hashing" \in {srv[d].pc, srv'[d].pc}]_vars

\* One task holds a permit for its hash, a second has had a mismatch and has
\* given its permit back before it writes the status, a third waits for the
\* client's bytes: one permit is out
C24_Witness ==
    \E c, d, e \in Conns :
        /\ srv[c].pc = "Hashing"
        /\ srv[d].pc = "AuthStatus" /\ ~srv[d].verified
        /\ srv[e].pc \in {"ReadSalt", "ReadAuthPassword"}
        /\ LIMIT = Permits - 1

\* A verification that ended in an error, and both permits are there
C24_WitnessError ==
    \E c \in Conns :
        /\ srv[c].pc = "Done" /\ srv[c].ret = "Err"
        /\ Has(log[c], LAMBDA e : IsReadOk(e) /\ e.what = "HashedPassword")
        /\ ~Has(log[c], LAMBDA e : e.op = "fail")
        /\ LIMIT = Permits

\* ------------------------------------------------------------ C25
IsServerStatus(e) == e.who = "S" /\ IsSessionStatus(e)
\* The responses the server task c has written in the session
Statuses(c) == Sel(log[c], IsServerStatus)
Queries25(c) == Sel(log[c], LAMBDA e : e.who = "S" /\ IsQueryFrame(e))

\* The bytes the client c takes from the stream in a step
Consumed25(c) == Take(s2c[c], Len(s2c[c]) - Len(s2c'[c]))

\* C25: between two calls of a Connection nothing of a response is unread and
\* nothing of one is still to be written: the server has answered every command
\* sent and waits for the next, and what the call returned is the status of its
\* own command.  A query reads the Query exactly when its status was Ok, and no
\* call ends in an error of the protocol.
C25_FrameSynchronized ==
    /\ [](\A c \in Conns :
              /\ (cli[c].pc = "Connected") =>
                     /\ s2c[c] = <<>>
                     /\ c2s[c] = <<>>
                     /\ srv[c].pc = "ReadCommand"
                     /\ Len(Statuses(c)) = Len(cli[c].sent)
                     /\ cli[c].sent # <<>> =>
                            (cli[c].ret = "Ok") = (Last(Statuses(c)).arg = "Ok")
              /\ cli[c].pc = "Failed" => cli[c].sent = <<>>
              /\ cli[c].pc = "CallQuery" =>
                     /\ Last(Statuses(c)).arg = "Ok"
                     /\ srv[c].command.tag = 3 \/ Len(Queries25(c)) > 0)
    /\ [][\A c \in Conns :
              (cli[c].pc = "CallStatus" /\ cli'[c].pc # "CallStatus") =>
                  /\ Consumed25(c) = Last(Statuses(c)).bytes
                  /\ (cli'[c].pc = "CallQuery") =
                         (InQuery(cli[c]) /\ Last(Statuses(c)).arg = "Ok")]_vars

\* A query that failed with a Status error, and after it a query that was
\* answered with its rows: both calls have returned
C25_Witness ==
    \E c \in Sessions :
        /\ cli[c].pc = "Connected"
        /\ cli[c].sent = <<write_command(SimpleQuery(SqlBad)),
                           write_command(SimpleQuery(SqlSelect))>>
        /\ cli[c].ret = "Ok"
        /\ Len(Queries25(c)) = 1

\* ------------------------------------------------------------ C26
\* The Query the server task c is about to write, and the rows its statement gave
QueryOf(c) == srv[c].result.query
RowsOf(c) == ResultRows(srv[c].conn, Head(Statements(srv[c].command.sql, <<>>)))

\* C26: the Query the adapter gives has one value for each column of each row
\* of the result, row after row, and no value when the statement has no
\* column; read_query takes every Query frame the server has written, and gives
\* back the Query that was written.
C26_QueryShape ==
    \A c \in Conns :
        /\ srv[c].pc = "WriteQuery" =>
               LET q == QueryOf(c)
                   w == Len(q.columns)
               IN /\ Len(q.values) = RowsOf(c) * w
                  /\ w = 0 => q.values = <<>>
                  /\ \A r \in 1..RowsOf(c) : \A i \in 1..w :
                         q.values[(r - 1) * w + i] = get_ref(r, i - 1)
                  /\ ~InvalidValuesLength(q.columns, q.values)
                  /\ read_query(write_query(q)) = Ok(q, <<>>)
        /\ \A i \in 1..Len(log[c]) :
               (log[c][i].who = "S" /\ IsQueryFrame(log[c][i])) =>
                   read_query(log[c][i].bytes).st = "ok"
        /\ cli[c].pc = "Failed" => cli[c].sent = <<>>

\* A Query of two rows of two columns has been written and read
C26_Witness ==
    \E c \in Sessions :
        /\ cli[c].pc = "Connected"
        /\ cli[c].sent = <<write_command(SimpleExecute(<<105, 59, 105>>)),
                           write_command(SimpleQuery(SqlSelect))>>
        /\ cli[c].ret = "Ok"
        /\ Has(log[c], LAMBDA e : IsQueryFrame(e) /\ Len(read_query(e.bytes).val.values) = 4)

\* The Query of a statement with no column has been written and read
C26_WitnessNoColumns ==
    \E c \in Sessions :
        /\ cli[c].pc = "Connected"
        /\ cli[c].ret = "Ok"
        /\ Has(log[c], LAMBDA e : IsQueryFrame(e) /\ read_query(e.bytes).val.columns = <<>>)

\* ------------------------------------------------------------ C27
\* The read the server task c is at, on the bytes that have arrived
ServerAwaits(c) ==
    CASE srv[c].pc = "ReadSalt" -> read_salt(c2s[c])
      [] srv[c].pc = "ReadAuthPassword" -> read_auth_password(c2s[c])
      [] srv[c].pc = "ReadConnect" -> read_connect(c2s[c])
      [] OTHER -> Ok(<<>>, <<>>)
\* The read the client c is at
ClientAwaits(c) ==
    CASE cli[c].pc = "ReadVersion" -> read_protocol_version(s2c[c])
      [] cli[c].pc = "ReadSalt" -> read_salt(s2c[c])
      [] cli[c].pc = "ReadHashParams" -> read_hash_params(s2c[c])
      [] cli[c].pc \in {"AuthStatus", "OpenStatus"} -> read_status(s2c[c])
      [] OTHER -> Ok(<<>>, <<>>)
\* A side waits to read: its read has not its bytes yet, and its peer is there
ServerWaits(c) == ServerAwaits(c).st = "eof" /\ cli[c].open
ClientWaits(c) == ClientAwaits(c).st = "eof" /\ srv[c].pc # "Done"
ClientWrites(c) == cli[c].pc \in {"WriteSalt", "WriteAuthPassword", "WriteConnect"}
ServerWrites(c) ==
    srv[c].pc \in {"WriteVersion", "WriteSalt", "WriteHashParams", "Verify", "Hashing",
                   "AuthStatus", "Connect", "OpenStatus"}
\* The handshake of connection c is over: both sides are in the session, or the
\* server task has ended and connect has returned an error
ShakeEnded(c) ==
    \/ srv[c].pc = "ReadCommand" /\ cli[c].pc = "Connected"
    \/ srv[c].pc = "Done" /\ cli[c].pc = "Failed"

\* C27: in the handshake the two sides never both wait to read, and never are
\* both the one that writes: what a side has written is in the stream when it
\* goes on to read.  With every task and every client scheduled, the handshake
\* of every accepted connection ends, in the session loop or closed, and stays
\* ended.
C27_HandshakeTerminates ==
    /\ [](\A c \in Conns :
              /\ ~(ServerWaits(c) /\ ClientWaits(c))
              /\ ~(ServerWrites(c) /\ ClientWrites(c)))
    /\ <>[](\A c \in Conns : srv[c].pc = "Idle" \/ ShakeEnded(c))

\* Three handshakes are over: one in the session loop, one refused for its
\* password
C27_Witness ==
    /\ \A c \in Conns : ShakeEnded(c)
    /\ \E c, d \in Conns : srv[c].pc = "ReadCommand" /\ srv[d].pc = "Done"

====
